---- MODULE Spec2Model ----
(***************************************************************************)
(* A model of three stores of the nixos-cursor tool-belt:                  *)
(*   - the Context Injection store (scripts/python/cursor_context_inject)  *)
(*   - the Conversation Archive Store (cursor/chat_db)                     *)
(*   - the Documentation Indexing Server (scripts/python/cursor_docs_mcp)  *)
(* Text is a sequence of one-character strings, so that len(), lower()     *)
(* and the substring test `in` are computed and not assumed.  An Optional  *)
(* value is the empty sequence (None) or a one-element sequence.           *)
(***************************************************************************)
EXTENDS Integers, Sequences, FiniteSets, TLC

VARIABLES
    \* ---- Context Injection store ----
    items,          \* ContextStore.items: an insertion-ordered dict, as a sequence of ContextItem
    disk,           \* the document at CONTEXT_STORE
    now,            \* datetime.now(), in whole hours
    proc,           \* "running", or "crashed" when constructing the store raised
    ret,            \* the last tool call and what it returned
    \* ---- Conversation Archive Store ----
    host,           \* the host's cursorDiskKV rows: conversation id -> bubbles in key order
    conversations,  \* our conversations table: a set of rows
    messages,       \* our messages table: a set of rows
    results,        \* what the last import_from_cursor returned
    imports,        \* history: the imports run since the host was last written, counted to 2
    \* ---- Documentation index ----
    doc_sources,    \* the doc_sources table: a set of rows
    doc_chunks,     \* the doc_chunks table: a set of rows
    docRet,         \* the last documentation tool call
    doc_chunks_fts, \* the rowids of the doc_chunks rows and the full-text index over them
    chunker,        \* a call of chunk_text in progress: its arguments, start offset and chunks
    \* ---- Conversation Mirror Sync Utility ----
    cursorKV,       \* the host's cursorDiskKV rows with a bubbleId: key: key -> value
    workspace,      \* the composer ids of the heads in the workspace store's allComposers
    external,       \* the external database: messages, tool_calls, conversations, last_sync
    syncs,          \* history: the syncs that returned since the host was last written, to 2
    syncRet,        \* what the last sync_conversations returned, or that it raised
    \* ---- Release Version Sync Automation ----
    autoRun,        \* a run of the `auto` command: where it is, the git commands it ran, their
                    \* exit codes, and what it printed
    \* ---- compute_hashes ----
    hashing,        \* a call of compute_hashes: its arguments, the batch index i, every
                    \* transfer's progress, and the results so far
    \* ---- Legacy Desktop Chat Browser ----
    gui,            \* the window: its statistics label, the rows of its list, the selected
                    \* ids and the two filters
    exports,        \* conversation id -> its rows in the archive's exports table
    \* ---- Traffic Capture Addon ----
    capture,        \* the payload database: raw files, metadata records, the stats counters,
                    \* the clock, and the flow the last hook was called with
    \* ---- varint codec ----
    varint,         \* a value, its encoding, and what decoding it gave
    \* ---- desktop-automation tool dispatcher ----
    agent,          \* the last call of execute_tool or parse_and_execute and what it gave
    \* ---- version registry sync ----
    registry,       \* the upstream and local registries, the download cache, what the last
                    \* command computed and printed
    \* ---- Traffic Interception Logger Addon ----
    proxy,          \* the addon's stats, the payload files it saved, the last flow it saw
    \* ---- Memory Payload Deep Decoder ----
    decoder         \* the payload handed to decode_message and the fields it returned

ctxVars  == <<items, disk, now, proc, ret>>
archVars == <<host, conversations, messages, results, imports>>
docVars  == <<doc_sources, doc_chunks, docRet, doc_chunks_fts>>
syncVars == <<cursorKV, workspace, external, syncs, syncRet>>
guiVars  == <<gui, exports>>
extVars  == <<chunker, syncVars, autoRun, hashing, guiVars, capture, varint, agent, registry, proxy, decoder>>
\* what the steps of one component leave alone
notChunk == <<ctxVars, archVars, docVars, syncVars, autoRun, hashing, guiVars, capture, varint, agent, registry, proxy, decoder>>
notSync  == <<ctxVars, archVars, docVars, chunker, autoRun, hashing, guiVars, capture, varint, agent, registry, proxy, decoder>>
notAuto  == <<ctxVars, archVars, docVars, chunker, syncVars, hashing, guiVars, capture, varint, agent, registry, proxy, decoder>>
notHash  == <<ctxVars, archVars, docVars, chunker, syncVars, autoRun, guiVars, capture, varint, agent, registry, proxy, decoder>>
notGui   == <<ctxVars, docVars, chunker, syncVars, autoRun, hashing, capture, varint, agent, registry, proxy, decoder>>
notCapture == <<ctxVars, archVars, docVars, chunker, syncVars, autoRun, hashing, guiVars, varint, agent, registry, proxy, decoder>>
notVarint == <<ctxVars, archVars, docVars, chunker, syncVars, autoRun, hashing, guiVars, capture, agent, registry, proxy, decoder>>
notAgent == <<ctxVars, archVars, docVars, chunker, syncVars, autoRun, hashing, guiVars, capture, varint, registry, proxy, decoder>>
notRegistry == <<ctxVars, archVars, docVars, chunker, syncVars, autoRun, hashing, guiVars, capture, varint, agent, proxy, decoder>>
notProxy == <<ctxVars, archVars, docVars, chunker, syncVars, autoRun, hashing, guiVars, capture, varint, agent, registry, decoder>>
notDecoder == <<ctxVars, archVars, docVars, chunker, syncVars, autoRun, hashing, guiVars, capture, varint, agent, registry, proxy>>
vars     == <<items, disk, now, proc, ret,
              host, conversations, messages, results, imports,
              doc_sources, doc_chunks, docRet, doc_chunks_fts, chunker,
              cursorKV, workspace, external, syncs, syncRet, autoRun, hashing, gui, exports, capture, varint, agent, registry, proxy, decoder>>

\* Python's None, and Optional values
None == <<>>
Some(v) == <<v>>

-----------------------------------------------------------------------------
(***************************************************************************)
(* Text                                                                    *)
(***************************************************************************)

\* str.lower(), on the letters the model's texts use
LowerChar(c) ==
    CASE c = "A" -> "a"
      [] c = "B" -> "b"
      [] c = "M" -> "m"
      [] OTHER   -> c

Lower(s) == [i \in 1..Len(s) |-> LowerChar(s[i])]

\* Python's `q in s` on strings
Contains(q, s) ==
    \E i \in 0..(Len(s) - Len(q)) : SubSeq(s, i + 1, i + Len(q)) = q

\* the elements of a sequence
Range(s) == {s[i] : i \in 1..Len(s)}

RECURSIVE SumSeq(_)
SumSeq(s) == IF s = <<>> THEN 0 ELSE Head(s) + SumSeq(Tail(s))

\* s without the elements that fail Keep, order kept (a list comprehension with a filter)
Filter(s, Keep(_)) ==
    LET F[i \in 0..Len(s)] ==
            IF i = 0 THEN <<>>
            ELSE IF Keep(s[i]) THEN Append(F[i - 1], s[i]) ELSE F[i - 1]
    IN F[Len(s)]

\* x put into a list that is sorted by Before, after every element that is not
\* strictly after it: one step of a stable sort
InsertSorted(x, s, Before(_, _)) ==
    LET first == IF \E i \in 1..Len(s) : Before(x, s[i])
                 THEN CHOOSE i \in 1..Len(s) :
                          Before(x, s[i]) /\ \A j \in 1..(i - 1) : ~Before(x, s[j])
                 ELSE Len(s) + 1
    IN SubSeq(s, 1, first - 1) \o <<x>> \o SubSeq(s, first, Len(s))

\* Python's sorted()/list.sort(): stable, also with reverse=True
Sorted(s, Before(_, _)) ==
    LET S[i \in 0..Len(s)] ==
            IF i = 0 THEN <<>> ELSE InsertSorted(s[i], S[i - 1], Before)
    IN S[Len(s)]

-----------------------------------------------------------------------------
(***************************************************************************)
(* Context Injection store: cursor_context_inject.py                       *)
(***************************************************************************)

\* ---- bounds and the inputs the tools are called with ----
MaxTime == 2
MaxTokens == 10

Keys == { <<"A", "b">> }
ProjectNames == { <<"p">> }
Contents == { <<"a", "B">>, <<"b", "b", "b", "b", "b", "b", "b", "b", "b", "b">> }
Queries == { <<>>, <<"a", "b">>, <<"M", "e", "m">> }
memory == <<"m", "e", "m", "o", "r", "y">>
docs == <<"d", "o", "c", "s">>
conversation == <<"c", "o", "n", "v", "e", "r", "s", "a", "t", "i", "o", "n">>
project == <<"p", "r", "o", "j", "e", "c", "t">>
Categories == { memory, project }
Priorities == { 0, 5, 11 }
ExpiresHours == { None, Some(0), Some(1) }
TokenBudgets == { 0, 5, MaxTokens }

\* the dataclass ContextItem
ContextItem(key, content, priority, category, created_at, expires_at, source) ==
    [key |-> key, content |-> content, priority |-> priority, category |-> category,
     created_at |-> created_at, expires_at |-> expires_at, source |-> source]

FieldNames == {"key", "content", "priority", "category", "created_at", "expires_at", "source"}
RequiredFields == {"key", "content", "priority", "category", "created_at"}

StoredKeys(its) == {its[i].key : i \in 1..Len(its)}

\* ---- persistence: asdict + json.dumps, json.loads + ContextItem(**v) ----
JNull == [j |-> "null"]
JStr(s) == [j |-> "str", s |-> s]
JNum(n) == [j |-> "num", n |-> n]
JIso(t) == [j |-> "str", iso |-> t]          \* the string datetime.isoformat() gives for time t
JOpt(o, J(_)) == IF o = None THEN JNull ELSE J(o[1])

\* (asdict without the expiry: expires_at is written as null)
ItemToJsonNoExpiry(it) ==
    [j |-> "obj",
     o |-> [key |-> JStr(it.key), content |-> JStr(it.content), priority |-> JNum(it.priority),
            category |-> JStr(it.category), created_at |-> JIso(it.created_at),
            expires_at |-> JNull, source |-> JOpt(it.source, JStr)]]

\* asdict(item), as json.dumps writes it
ItemToJson(it) ==
    [j |-> "obj",
     o |-> [key |-> JStr(it.key), content |-> JStr(it.content), priority |-> JNum(it.priority),
            category |-> JStr(it.category), created_at |-> JIso(it.created_at),
            expires_at |-> JOpt(it.expires_at, JIso), source |-> JOpt(it.source, JStr)]]

NoFile == [t |-> "absent"]
NotJson == [t |-> "text"]                     \* a file json.loads cannot parse
JsonFile(v) == [t |-> "json", v |-> v]
\* a JSON object: its members in document order
JObject(members) == [j |-> "obj", members |-> members]
Member(name, value) == [name |-> name, value |-> value]

\* ContextStore.save
save(its) ==
    JsonFile(JObject([i \in 1..Len(its) |-> Member(its[i].key, ItemToJson(its[i]))]))

\* the Python value of a JSON value the model's items hold
FromJ(v) ==
    CASE v.j = "null" -> None
      [] v.j = "num"  -> v.n
      [] v.j = "str" /\ "iso" \in DOMAIN v -> v.iso
      [] v.j = "str"  -> v.s

OptFromJ(o, name) ==
    IF name \in DOMAIN o
    THEN (IF o[name].j = "null" THEN None ELSE Some(FromJ(o[name])))
    ELSE None

\* ContextItem(**v) raises TypeError: v is no mapping, names an unknown field or lacks a required one
RaisesTypeError(v) ==
    \/ v.j # "obj"
    \/ "o" \notin DOMAIN v
    \/ ~(DOMAIN v.o \subseteq FieldNames)
    \/ ~(RequiredFields \subseteq DOMAIN v.o)

ItemFromJson(v) ==
    ContextItem(FromJ(v.o.key), FromJ(v.o.content), FromJ(v.o.priority), FromJ(v.o.category),
                FromJ(v.o.created_at), OptFromJ(v.o, "expires_at"), OptFromJ(v.o, "source"))

\* ContextStore.load on a store whose items are {}: the items it ends with, or that it raised
load(doc) ==
    IF doc.t = "absent" THEN [raised |-> FALSE, items |-> <<>>]
    ELSE IF doc.t = "text" THEN [raised |-> FALSE, items |-> <<>>]      \* JSONDecodeError, caught
    ELSE IF "members" \notin DOMAIN doc.v
         THEN [raised |-> TRUE, items |-> <<>>]    \* data.items(): AttributeError, not caught
    ELSE IF \E i \in 1..Len(doc.v.members) : RaisesTypeError(doc.v.members[i].value)
         THEN [raised |-> FALSE, items |-> <<>>]                        \* TypeError, caught
    ELSE [raised |-> FALSE,
          items |-> [i \in 1..Len(doc.v.members) |-> ItemFromJson(doc.v.members[i].value)]]

\* (a list in place of the dict: the item is appended whether or not its key is stored)
AssignItemAppend(its, item) == Append(its, item)

\* self.items[item.key] = item: an existing key keeps its place in the dict
AssignItem(its, item) ==
    IF item.key \in StoredKeys(its)
    THEN [i \in 1..Len(its) |-> IF its[i].key = item.key THEN item ELSE its[i]]
    ELSE Append(its, item)

\* del self.items[key]
DeleteItem(its, key) == LET Other(it) == it.key # key IN Filter(its, Other)

\* ---- queries ----
\* datetime.fromisoformat(item.expires_at) < datetime.now(), for an item that has an expiry
Expired(it, t) == it.expires_at # None /\ it.expires_at[1] < t

\* ContextStore.search
search(its, query, category, t) ==
    LET q == Lower(query)
        Hit(it) ==
            /\ ~Expired(it, t)
            /\ ~(category # None /\ category[1] # <<>> /\ it.category # category[1])
            /\ \/ Contains(q, Lower(it.key))
               \/ Contains(q, Lower(it.content))
               \/ Contains(q, Lower(it.category))
        Higher(x, y) == x.priority > y.priority
    IN Sorted(Filter(its, Hit), Higher)

\* ContextStore.get_by_category
get_by_category(its, category) ==
    LET InCat(it) == it.category = category IN Filter(its, InCat)

\* len(f"## {item.category.title()}: {item.key}\n{item.content}\n")
ItemTextLen(it) == 3 + Len(it.category) + 2 + Len(it.key) + 1 + Len(it.content) + 1

\* the loop of get_all_context: the items taken before the first one that does not fit
RECURSIVE TakeWithin(_, _, _)
TakeWithin(s, total_chars, char_limit) ==
    IF s = <<>> THEN <<>>
    ELSE IF total_chars + ItemTextLen(Head(s)) > char_limit THEN <<>>
    ELSE <<Head(s)>> \o TakeWithin(Tail(s), total_chars + ItemTextLen(Head(s)), char_limit)

\* len("# Injected Context\n\n" + "\n---\n\n".join(context_parts))
DocumentLen(parts) ==
    20 + SumSeq([i \in 1..Len(parts) |-> ItemTextLen(parts[i])]) + 6 * (Len(parts) - 1)

\* ContextStore.get_all_context: the items of the document in order, and the document's length
get_all_context(its, max_tokens) ==
    LET After(x, y) == \/ x.priority > y.priority
                       \/ x.priority = y.priority /\ x.created_at > y.created_at
        all_items == Sorted(its, After)
        parts == TakeWithin(all_items, 0, max_tokens * 4)
    IN IF parts = <<>>
       THEN [kind |-> "No injected context available.", out |-> <<>>, len |-> 30]
       ELSE [kind |-> "# Injected Context", out |-> parts, len |-> DocumentLen(parts)]

\* items[:10]
FirstTen(s) == SubSeq(s, 1, IF Len(s) < 10 THEN Len(s) ELSE 10)

\* the tool get_injected_context
get_injected_context(its, query, category, max_tokens, t) ==
    IF query # None /\ query[1] # <<>>
    THEN LET found == search(its, query[1], category, t)
         IN IF found = <<>> THEN [kind |-> "No context found", out |-> <<>>, len |-> 0]
            ELSE [kind |-> "# Retrieved Context", out |-> FirstTen(found), len |-> 0]
    ELSE IF category # None /\ category[1] # <<>>
    THEN LET found == get_by_category(its, category[1])
         IN IF found = <<>> THEN [kind |-> "No context found", out |-> <<>>, len |-> 0]
            ELSE [kind |-> "# Retrieved Context", out |-> FirstTen(found), len |-> 0]
    ELSE get_all_context(its, max_tokens)

\* the tool list_injected_context: the rows of the table
list_injected_context(its) ==
    LET Higher(x, y) == x.priority > y.priority
    IN IF its = <<>> THEN [kind |-> "No context items stored.", out |-> <<>>, len |-> 0]
       ELSE [kind |-> "table", out |-> Sorted(its, Higher), len |-> 0]

\* ---- the store's state machine ----
NoRet == [op |-> "none", at |-> 0, key |-> <<>>, kind |-> "", out |-> <<>>, len |-> 0, budget |-> 0]

\* what a tool call leaves in ret: the call, when it ran, and the document or listing it returned
Called(op, key, r, budget) ==
    [op |-> op, at |-> now, key |-> key, kind |-> r.kind, out |-> r.out, len |-> r.len,
     budget |-> budget]

Stored(op, item) == Called(op, item.key, [kind |-> "stored", out |-> <<item>>, len |-> 0], 0)

\* the server takes one tool call at a time: none while a reply is pending
Idle == proc = "running" /\ ret = NoRet

\* ContextStore.add: assign, then save
add(item) ==
    /\ items' = AssignItem(items, item)
    /\ disk' = save(items')

\* max(1, min(10, priority))
Clamp(priority) ==
    LET m == IF priority < 10 THEN priority ELSE 10
    IN IF m > 1 THEN m ELSE 1

\* inject_context: `if expires_hours:` is false for None and for 0
ExpiresAt(expires_hours, t) ==
    IF expires_hours # None /\ expires_hours[1] # 0 THEN Some(t + expires_hours[1]) ELSE None

InjectContext(key, content, category, priority, expires_hours, source) ==
    /\ Idle
    /\ LET item == ContextItem(key, content, Clamp(priority), category, now,
                               ExpiresAt(expires_hours, now), source)
       IN /\ add(item)
          /\ ret' = Stored("inject_context", item)
    /\ UNCHANGED <<now, proc>>
    /\ UNCHANGED <<archVars, docVars, extVars>>

SummarizeConversationForInjection(conversation_summary, key, priority) ==
    /\ Idle
    /\ LET item == ContextItem(key, conversation_summary, priority, conversation, now,
                               None, Some("conversation_summary"))
       IN /\ add(item)
          /\ ret' = Stored("summarize_conversation_for_injection", item)
    /\ UNCHANGED <<now, proc>>
    /\ UNCHANGED <<archVars, docVars, extVars>>

\* f"project:{project_name}"
ProjectKey(project_name) == project \o <<":">> \o project_name

InjectProjectContext(project_name, context, priority) ==
    /\ Idle
    /\ LET item == ContextItem(ProjectKey(project_name), context, priority, project, now,
                               None, None)
       IN /\ add(item)
          /\ ret' = Stored("inject_project_context", item)
    /\ UNCHANGED <<now, proc>>
    /\ UNCHANGED <<archVars, docVars, extVars>>

CliAdd(key, content, category, priority) ==
    /\ Idle
    /\ LET item == ContextItem(key, content, priority, category, now, None, None)
       IN /\ add(item)
          /\ ret' = Stored("cli_add", item)
    /\ UNCHANGED <<now, proc>>
    /\ UNCHANGED <<archVars, docVars, extVars>>

\* ContextStore.remove, as remove_injected_context and cli_remove call it
RemoveInjectedContext(key) ==
    /\ Idle
    /\ IF key \in StoredKeys(items)
       THEN /\ items' = DeleteItem(items, key)
            /\ disk' = save(items')
            /\ ret' = Called("remove", key, [kind |-> "Removed", out |-> <<>>, len |-> 0], 0)
       ELSE /\ UNCHANGED <<items, disk>>
            /\ ret' = Called("remove", key, [kind |-> "not found", out |-> <<>>, len |-> 0], 0)
    /\ UNCHANGED <<now, proc>>
    /\ UNCHANGED <<archVars, docVars, extVars>>

\* ContextStore.search, called on the store directly
Search(query, category) ==
    /\ Idle
    /\ ret' = Called("search", query,
                     [kind |-> "list", out |-> search(items, query, category, now), len |-> 0], 0)
    /\ UNCHANGED <<items, disk, now, proc>>
    /\ UNCHANGED <<archVars, docVars, extVars>>

GetInjectedContext(query, category, max_tokens) ==
    /\ Idle
    /\ ret' = Called(IF query # None /\ query[1] # <<>> THEN "get_injected_context(query)"
                     ELSE IF category # None /\ category[1] # <<>>
                          THEN "get_injected_context(category)"
                          ELSE "get_injected_context()",
                     IF category = None THEN <<>> ELSE category[1],
                     get_injected_context(items, query, category, max_tokens, now),
                     max_tokens)
    /\ UNCHANGED <<items, disk, now, proc>>
    /\ UNCHANGED <<archVars, docVars, extVars>>

ListInjectedContext ==
    /\ Idle
    /\ ret' = Called("list_injected_context", <<>>, list_injected_context(items), 0)
    /\ UNCHANGED <<items, disk, now, proc>>
    /\ UNCHANGED <<archVars, docVars, extVars>>

\* the clock moves on
Tick ==
    /\ ret = NoRet
    /\ now < MaxTime
    /\ now' = now + 1
    /\ UNCHANGED <<items, disk, proc, ret>>
    /\ UNCHANGED <<archVars, docVars, extVars>>

\* a new process: `store = ContextStore()` runs __init__, which loads the document
Construct ==
    /\ ret = NoRet
    /\ LET l == load(disk)
       IN /\ items' = l.items
          /\ proc' = IF l.raised THEN "crashed" ELSE "running"
          /\ ret' = [NoRet EXCEPT !.op = "construct", !.at = now,
                                  !.kind = IF l.raised THEN "raised" ELSE "ok"]
    /\ UNCHANGED <<disk, now>>
    /\ UNCHANGED <<archVars, docVars, extVars>>

\* the reply is sent; the next call can be taken
Reply ==
    /\ ret # NoRet
    /\ ret' = NoRet
    /\ UNCHANGED <<items, disk, now, proc>>
    /\ UNCHANGED <<archVars, docVars, extVars>>

\* a document at CONTEXT_STORE that the store did not write
SomeItemJson == ItemToJson(ContextItem(<<"A", "b">>, <<"a", "B">>, 5, memory, 0, None, None)).o
InvalidDocs ==
    { NotJson,
      JsonFile([j |-> "arr"]),
      JsonFile(JNull),
      JsonFile(JNum(3)),
      JsonFile(JStr(<<"A", "b">>)),
      JsonFile(JObject(<<Member(<<"A", "b">>, JNum(1))>>)),
      JsonFile(JObject(<<Member(<<"A", "b">>, [j |-> "arr"])>>)),
      JsonFile(JObject(<<Member(<<"A", "b">>, [j |-> "obj", o |-> [key |-> JStr(<<"A", "b">>)]])>>)),
      JsonFile(JObject(<<Member(<<"A", "b">>,
          [j |-> "obj", o |-> [x \in FieldNames \cup {"color"} |->
                                 IF x = "color" THEN JNull ELSE SomeItemJson[x]]])>>)) }
\* documents of another writer that are well formed: no items, and an item without its
\* optional fields
ValidForeignDocs ==
    { JsonFile(JObject(<<>>)),
      JsonFile(JObject(<<Member(<<"A", "b">>,
          [j |-> "obj", o |-> [x \in RequiredFields |-> SomeItemJson[x]]])>>)) }
ForeignDocs == InvalidDocs \cup ValidForeignDocs

\* something else leaves a document at CONTEXT_STORE (an edit by hand, a cut-off write)
ExternalWrite(doc) ==
    /\ ret = NoRet
    /\ disk' = doc
    /\ UNCHANGED <<items, now, proc, ret>>
    /\ UNCHANGED <<archVars, docVars, extVars>>

-----------------------------------------------------------------------------
(***************************************************************************)
(* Conversation Archive Store: cursor/chat_db.py                           *)
(*                                                                         *)
(* The host keeps one row per bubble under the key                         *)
(* bubbleId:<conversation id>:<bubble id>.  host maps a conversation id to *)
(* its bubbles, a function from bubble ids to raw values; `ORDER BY key`   *)
(* is the order of the bubble ids.  A raw value is a text, a sequence of   *)
(* tokens, so that the hashed concatenation is computed.                   *)
(***************************************************************************)

MaxBubbles == 2

ConvIds == {"c1", "c2"}
BubbleIds == 1..2
Versions == {"default"}

\* raw bubble values
UserHi    == <<"{", "type:2", "text:hi", "}">>      \* json: {"type": 2, "text": "hi"}
AssistObj == <<"{", "type:1", "text:{..}", "}">>    \* json: {"type": 1, "text": {"a": 1}}
Garbage   == <<"{">>                                \* not json
Values == {UserHi, AssistObj, Garbage}

\* json.loads(value) and the fields import_from_cursor reads: whether the bubble parses,
\* its role and content, and whether sqlite can bind the content
ParseBubble(value) ==
    IF Len(value) = 4 /\ value[1] = "{" /\ value[4] = "}"
    THEN [ok |-> TRUE,
          role |-> IF value[2] = "type:1" THEN "assistant" ELSE "user",
          content |-> value[3],
          bindable |-> value[3] # "text:{..}"]
    ELSE [ok |-> FALSE, role |-> "", content |-> "", bindable |-> TRUE]

\* the bubble ids of a conversation in key order
RECURSIVE Ascending(_)
Ascending(S) ==
    IF S = {} THEN <<>>
    ELSE LET m == CHOOSE x \in S : \A y \in S : x <= y
         IN <<m>> \o Ascending(S \ {m})

\* messages_data: the (key, value) rows of one conversation, ORDER BY key
MessagesData(h, conv_id) ==
    LET ids == Ascending(DOMAIN h[conv_id])
    IN [i \in 1..Len(ids) |-> [bubble |-> ids[i], value |-> h[conv_id][ids[i]]]]

RECURSIVE Join(_)
Join(texts) == IF texts = <<>> THEN <<>> ELSE Head(texts) \o Join(Tail(texts))

\* hashlib.md5("".join(str(m[1]) for m in messages_data)): the digest stands for the text
\* it was taken of (md5 collisions apart, two digests are equal iff the joined texts are)
ContentHash(messages_data) ==
    Join([i \in 1..Len(messages_data) |-> messages_data[i].value])

\* the parse loop: the messages of the bubbles that parse, each with its enumerate() index
ParsedMessages(messages_data) ==
    LET Parsed(i) == ParseBubble(messages_data[i].value)
        M[i \in 0..Len(messages_data)] ==
            IF i = 0 THEN <<>>
            ELSE IF Parsed(i).ok
                 THEN Append(M[i - 1],
                             [id |-> messages_data[i].bubble, sequence |-> i - 1,
                              role |-> Parsed(i).role, content |-> Parsed(i).content,
                              bindable |-> Parsed(i).bindable])
                 ELSE M[i - 1]
    IN M[Len(messages_data)]

\* the title: the first user message with content, or "Untitled Chat"
Title(msgs) ==
    LET users == {i \in 1..Len(msgs) : msgs[i].role = "user"}
    IN IF users = {} THEN "Untitled Chat"
       ELSE msgs[CHOOSE i \in users : \A j \in users : i <= j].content

ConversationRow(id, version, title, message_count, content_hash) ==
    [id |-> id, source_version |-> version, original_title |-> title,
     message_count |-> message_count, content_hash |-> content_hash,
     category_id |-> 1, is_favorite |-> 0, is_archived |-> 0]

MessageRow(m, conv_id) ==
    [id |-> m.id, conversation_id |-> conv_id, sequence |-> m.sequence,
     role |-> m.role, content |-> m.content]

\* the insert loop: INSERT OR IGNORE each message up to the first whose content sqlite
\* cannot bind, which raises
InsertMessages(rows, msgs, conv_id) ==
    LET stop == IF \E i \in 1..Len(msgs) : ~msgs[i].bindable
                THEN CHOOSE i \in 1..Len(msgs) :
                         ~msgs[i].bindable /\ \A j \in 1..(i - 1) : msgs[j].bindable
                ELSE Len(msgs) + 1
        R[i \in 0..(stop - 1)] ==
            IF i = 0 THEN rows
            ELSE IF \E r \in R[i - 1] : r.id = msgs[i].id
                 THEN R[i - 1]                               \* OR IGNORE: the id is taken
                 ELSE R[i - 1] \cup {MessageRow(msgs[i], conv_id)}
    IN [rows |-> R[stop - 1], raised |-> stop <= Len(msgs)]

\* f"Conv {conv_id}: {e}"
ConvError(conv_id) == "Conv " \o conv_id

\* the duplicate guard: SELECT id FROM conversations WHERE content_hash = ?
AlreadyImportedNever(rows, content_hash) == FALSE

AlreadyImported(rows, content_hash) == \E c \in rows : c.content_hash = content_hash

\* (a conversations table whose id is no key)
IdTakenNever(rows, conv_id) == FALSE

\* id TEXT PRIMARY KEY: INSERT INTO conversations raises IntegrityError when the id is stored
IdTaken(rows, conv_id) == \E c \in rows : c.id = conv_id

\* one pass of the `for conv_id in conv_ids` loop
ImportOne(st, h, conv_id, version) ==
    LET messages_data == MessagesData(h, conv_id)
        content_hash == ContentHash(messages_data)
        msgs == ParsedMessages(messages_data)
        parse_errors == [i \in 1..(Len(messages_data) - Len(msgs)) |-> "Message parse error"]
        ins == InsertMessages(st.messages, msgs, conv_id)
    IN IF messages_data = <<>> THEN st
       ELSE IF AlreadyImported(st.conversations, content_hash)
       THEN [st EXCEPT !.skipped = @ + 1]
       ELSE IF msgs = <<>>
       THEN [st EXCEPT !.errors = @ \o parse_errors]
       ELSE IF IdTaken(st.conversations, conv_id)
       THEN \* INSERT INTO conversations: the primary key is taken, IntegrityError
            [st EXCEPT !.errors = @ \o parse_errors \o <<ConvError(conv_id)>>]
       ELSE IF ins.raised
       THEN [st EXCEPT !.conversations = @ \cup
                           {ConversationRow(conv_id, version, Title(msgs), Len(msgs), content_hash)},
                       !.messages = ins.rows,
                       !.errors = @ \o parse_errors \o <<ConvError(conv_id)>>]
       ELSE [st EXCEPT !.conversations = @ \cup
                           {ConversationRow(conv_id, version, Title(msgs), Len(msgs), content_hash)},
                       !.messages = ins.rows,
                       !.errors = @ \o parse_errors,
                       !.imported = @ + 1]

RECURSIVE ImportLoop(_, _, _, _)
ImportLoop(st, h, conv_ids, version) ==
    IF conv_ids = <<>> THEN st
    ELSE ImportLoop(ImportOne(st, h, Head(conv_ids), version), h, Tail(conv_ids), version)

\* the orders `SELECT DISTINCT substr(key, 10, 36)` may give the conversation ids in
Orders(S) ==
    {o \in [1..Cardinality(S) -> S] : \A i, j \in 1..Cardinality(S) : i # j => o[i] # o[j]}

NoResults == [success |-> TRUE, imported |-> 0, skipped |-> 0, errors |-> <<>>]

\* import_from_cursor on a host database that exists
ImportFromCursor(version) ==
    \E conv_ids \in Orders({c \in ConvIds : DOMAIN host[c] # {}}) :
        LET st == ImportLoop([conversations |-> conversations, messages |-> messages,
                              imported |-> 0, skipped |-> 0, errors |-> <<>>],
                             host, conv_ids, version)
        IN /\ conversations' = st.conversations
           /\ messages' = st.messages
           /\ results' = [success |-> TRUE, imported |-> st.imported, skipped |-> st.skipped,
                          errors |-> st.errors]
           /\ imports' = IF imports = 0 THEN 1 ELSE 2
           /\ UNCHANGED host
           /\ UNCHANGED <<ctxVars, docVars, extVars>>

\* import_from_cursor on a path that does not exist
ImportFromMissing ==
    /\ results' = [success |-> FALSE, imported |-> 0, skipped |-> 0,
                   errors |-> <<"Database not found">>]
    /\ UNCHANGED <<host, conversations, messages, imports>>
    /\ UNCHANGED <<ctxVars, docVars, extVars>>

\* the bubbles the host holds
HostSize(h) == Cardinality({cb \in ConvIds \X BubbleIds : cb[2] \in DOMAIN h[cb[1]]})

\* the host application writes a bubble: a new one, or a new value for one it has
HostWrite(conv_id, bubble, value) ==
    /\ bubble \in DOMAIN host[conv_id] \/ HostSize(host) < MaxBubbles
    /\ ~(bubble \in DOMAIN host[conv_id] /\ host[conv_id][bubble] = value)
    /\ host' = [host EXCEPT ![conv_id] =
                   [b \in DOMAIN host[conv_id] \cup {bubble} |->
                      IF b = bubble THEN value ELSE host[conv_id][b]]]
    /\ imports' = 0
    /\ UNCHANGED <<conversations, messages, results>>
    /\ UNCHANGED <<ctxVars, docVars, extVars>>

\* update_conversation(conv_id, is_archived=1)
ArchiveConversation(conv_id) ==
    /\ conversations' = {IF c.id = conv_id THEN [c EXCEPT !.is_archived = 1] ELSE c :
                           c \in conversations}
    /\ UNCHANGED <<host, messages, results, imports>>
    /\ UNCHANGED <<ctxVars, docVars, extVars>>

\* toggle_favorite: is_favorite = NOT is_favorite
ToggleFavorite(conv_id) ==
    /\ conversations' = {IF c.id = conv_id THEN [c EXCEPT !.is_favorite = 1 - @] ELSE c :
                           c \in conversations}
    /\ UNCHANGED <<host, messages, results, imports>>
    /\ UNCHANGED <<ctxVars, docVars, extVars>>

\* the ids of the categories table (DEFAULT_CATEGORIES, in sort order); a conversation is
\* imported into category 1
CategoryIds == 1..2
SearchTerms == {"hi", "zz"}

\* messages_fts MATCH search: the message's content holds the term
FtsMatch(content, term) == content = "text:" \o term

\* get_conversations(category_id, favorites_only, search), as a set: the conversations of
\* this model are fewer than the default limit of 100.  A search term replaces the query,
\* and with it the category and favorites filters.
get_conversations(convs, msgs, category_id, favorites_only, search_term) ==
    IF search_term # None
    THEN {c \in convs :
            /\ \E m \in msgs : m.conversation_id = c.id /\ FtsMatch(m.content, search_term[1])
            /\ c.is_archived = 0}
    ELSE {c \in convs :
            /\ c.is_archived = 0
            /\ category_id # None => c.category_id = category_id[1]
            /\ favorites_only => c.is_favorite = 1}

\* get_conversation(conv_id): None, or the row with its messages
get_conversation(convs, msgs, conv_id) ==
    IF \E c \in convs : c.id = conv_id
    THEN Some([conv |-> CHOOSE c \in convs : c.id = conv_id,
               messages |-> {m \in msgs : m.conversation_id = conv_id}])
    ELSE None

\* get_stats()
get_stats(convs, msgs) ==
    [total_conversations |-> Cardinality({c \in convs : c.is_archived = 0}),
     total_messages |-> Cardinality(msgs),
     favorites |-> Cardinality({c \in convs : c.is_favorite = 1}),
     by_category |-> [cat \in CategoryIds |->
                        Cardinality({c \in convs : c.category_id = cat /\ c.is_archived = 0})],
     by_version |-> [v \in {c.source_version : c \in {x \in convs : x.is_archived = 0}} |->
                       Cardinality({c \in convs : c.source_version = v /\ c.is_archived = 0})]]

NextArch ==
    \/ \E version \in Versions : ImportFromCursor(version)
    \/ ImportFromMissing
    \/ \E conv_id \in ConvIds, bubble \in BubbleIds, value \in Values :
          HostWrite(conv_id, bubble, value)
    \/ \E conv_id \in ConvIds : ArchiveConversation(conv_id)

-----------------------------------------------------------------------------
(***************************************************************************)
(* Documentation Indexing Server: cursor_docs_mcp.py                       *)
(*                                                                         *)
(* A source row is modelled without its description and last_indexed, a    *)
(* chunk row without created_at: nothing the index does reads them.        *)
(***************************************************************************)

\* CHUNK_SIZE = 1500 and CHUNK_OVERLAP = 200, scaled down to texts of a dozen characters
CHUNK_SIZE == 6
CHUNK_OVERLAP == 1

Whitespace == {" ", "\n"}

\* a slice bound as Python reads it: a negative one counts from the end, and both are clipped
SliceIndex(i, n) ==
    IF i < 0 THEN (IF i + n < 0 THEN 0 ELSE i + n) ELSE (IF i > n THEN n ELSE i)

\* text.rfind(sub, start, end), 0-based: the highest start of sub within text[start:end], or -1
RFind(text, sub, start, end) ==
    LET lo == SliceIndex(start, Len(text))
        hi == SliceIndex(end, Len(text))
        at == {i \in lo..(hi - Len(sub)) : SubSeq(text, i + 1, i + Len(sub)) = sub}
    IN IF at = {} THEN -1 ELSE CHOOSE i \in at : \A k \in at : k <= i

\* text[start:end]
Slice(text, start, end) ==
    SubSeq(text, SliceIndex(start, Len(text)) + 1, SliceIndex(end, Len(text)))

\* str.strip()
Strip(t) ==
    LET inked == {i \in 1..Len(t) : t[i] \notin Whitespace}
    IN IF inked = {} THEN <<>>
       ELSE SubSeq(t, CHOOSE i \in inked : \A k \in inked : i <= k,
                      CHOOSE i \in inked : \A k \in inked : k <= i)

\* where the chunk that starts at `start` ends: at a paragraph break, else after a sentence,
\* when one lies in the second half of the window
ChunkEnd(text, start, chunk_size) ==
    LET end == start + chunk_size
        para_break == RFind(text, <<"\n", "\n">>, start, end)
        sent_break == RFind(text, <<".", " ">>, start, end)
    IN IF end < Len(text)
       THEN IF para_break > start + (chunk_size \div 2) THEN para_break
            ELSE IF sent_break > start + (chunk_size \div 2) THEN sent_break + 1
            ELSE end
       ELSE end

\* the while loop of chunk_text, from `start` on
RECURSIVE ChunksFrom(_, _, _, _)
ChunksFrom(text, start, chunk_size, overlap) ==
    IF start >= Len(text) THEN <<>>
    ELSE LET end == ChunkEnd(text, start, chunk_size)
             chunk == Strip(Slice(text, start, end))
         IN (IF chunk # <<>> THEN <<chunk>> ELSE <<>>)
            \o ChunksFrom(text, IF end < Len(text) THEN end - overlap ELSE end,
                          chunk_size, overlap)

chunk_text(text, chunk_size, overlap) == ChunksFrom(text, 0, chunk_size, overlap)

\* the pages the model indexes
URLs == {"http://a.io/docs", "https://b.io/guide"}

\* hashlib.sha256(url.encode()).hexdigest()[:16]: sixteen hex digits, one per URL
\* (collisions of the truncated digest apart)
DocId(url) ==
    CASE url = "http://a.io/docs"   -> "a1a1a1a1a1a1a1a1"
      [] url = "https://b.io/guide" -> "b2b2b2b2b2b2b2b2"
      [] OTHER                      -> "ffffffffffffffff"

\* what fetch_page gives: it raises, or the title and the cleaned text
FetchFailed == [ok |-> FALSE, title |-> "", text |-> <<>>]
Fetched(title, text) == [ok |-> TRUE, title |-> title, text |-> text]
Pages ==
    { FetchFailed,
      Fetched("Docs", <<"a", "a", "a">>),
      Fetched("Docs", <<" ", "\n">>),
      Fetched("Docs v2", <<"a", "a", "a", "a", ".", " ", "b", "b", "b", "b", "b", "b">>),
      Fetched("Guide", <<"a", "a", "a", "a", "\n", "\n", "b", "b", "b", "b", "b", "b", "b", "b">>) }

SourceRow(id, url, title, chunks_count, status) ==
    [id |-> id, url |-> url, title |-> title, chunks_count |-> chunks_count, status |-> status]

\* f"{doc_id}:{i}"
ChunkId(doc_id, i) == <<doc_id, i>>

ChunkRow(doc_id, url, title, content, i) ==
    [id |-> ChunkId(doc_id, i), doc_id |-> doc_id, url |-> url, title |-> title,
     content |-> content, position |-> i]

\* (index_url without its DELETE)
DeleteChunksNone(rows, doc_id) == rows

\* DELETE FROM doc_chunks WHERE doc_id = ?
DeleteChunks(rows, doc_id) == {r \in rows : r.doc_id # doc_id}

\* DELETE FROM doc_sources WHERE id = ?
DeleteSourceRow(rows, doc_id) == {r \in rows : r.id # doc_id}

\* table.insert(row, replace=True): INSERT OR REPLACE on the primary key id
InsertReplace(rows, row) == {r \in rows : r.id # row.id} \cup {row}

\* the insert loop of index_url
InsertChunks(rows, doc_id, url, title, chunks) ==
    LET R[i \in 0..Len(chunks)] ==
            IF i = 0 THEN rows
            ELSE InsertReplace(R[i - 1], ChunkRow(doc_id, url, title, chunks[i], i - 1))
    IN R[Len(chunks)]

\* ---- the full-text index doc_chunks_fts (init_db) ----
\* the index never shrinks: the model stops indexing when it holds this many entries
MaxIndexed == 4

\* the table starts empty: no row has a rowid, the index has no entry
NoFts == [rowids |-> {}, index |-> {}]

\* the rowid SQLite gives a new doc_chunks row: one more than the largest in the table
NextRowid(rowids) ==
    IF rowids = {} THEN 1
    ELSE 1 + (CHOOSE n \in {p[2] : p \in rowids} : \A p \in rowids : p[2] <= n)

\* DELETE FROM doc_chunks WHERE doc_id = ?, as the index sees it: the rows go, and no
\* trigger tells doc_chunks_fts
FtsDelete(f, doc_id) == [f EXCEPT !.rowids = {p \in @ : p[1][1] # doc_id}]

\* the trigger doc_chunks_ai, AFTER INSERT ON doc_chunks: the new row's rowid, content, title
\* and url enter the index
FtsInsert(f, row) ==
    [rowids |-> {p \in f.rowids : p[1] # row.id} \cup {<<row.id, NextRowid(f.rowids)>>},
     index |-> f.index \cup {[rowid |-> NextRowid(f.rowids), content |-> row.content,
                              title |-> row.title, url |-> row.url]}]

\* the non-token characters of the default (unicode61) tokenizer that the pages hold
Separators == Whitespace \cup {"."}

\* the tokens of a text: its maximal runs of token characters
ContentTokens(text) ==
    {SubSeq(text, run[1], run[2]) :
        run \in {at \in (1..Len(text)) \X (1..Len(text)) :
                    /\ at[1] <= at[2]
                    /\ \A n \in at[1]..at[2] : text[n] \notin Separators
                    /\ (at[1] = 1 \/ text[at[1] - 1] \in Separators)
                    /\ (at[2] = Len(text) \/ text[at[2] + 1] \in Separators)}}

\* the tokens of the titles and URLs of the pages, lower-cased
Words(text) ==
    CASE text = "Docs" -> {<<"d", "o", "c", "s">>}
      [] text = "Docs v2" -> {<<"d", "o", "c", "s">>, <<"v", "2">>}
      [] text = "Guide" -> {<<"g", "u", "i", "d", "e">>}
      [] text = "http://a.io/docs" -> {<<"h", "t", "t", "p">>, <<"a">>, <<"i", "o">>,
                                        <<"d", "o", "c", "s">>}
      [] text = "https://b.io/guide" -> {<<"h", "t", "t", "p", "s">>, <<"b">>, <<"i", "o">>,
                                          <<"g", "u", "i", "d", "e">>}
      [] OTHER -> {}

\* doc_chunks_fts MATCH ?, for a query of one word, on what the index holds of one row
DocsMatch(content, title, url, query) ==
    query \in ContentTokens(content) \cup Words(title) \cup Words(url)

\* the rows `FROM doc_chunks_fts fts JOIN doc_chunks c ON fts.rowid = c.rowid WHERE
\* doc_chunks_fts MATCH ?` gives
FtsJoin(rows, f, query) ==
    {r \in rows : \E p \in f.rowids, e \in f.index :
                      /\ p[1] = r.id
                      /\ e.rowid = p[2]
                      /\ DocsMatch(e.content, e.title, e.url, query)}

\* ORDER BY rank LIMIT ?: all the matches when they are no more than the limit, else
\* `limit` of them, those bm25 ranks first
Limited(matches, limit) ==
    IF Cardinality(matches) <= limit THEN {matches}
    ELSE {shown \in SUBSET matches : Cardinality(shown) = limit}

\* the insert loop of index_url, as the index sees it
FtsInsertChunks(f, doc_id, url, title, chunks) ==
    LET F[i \in 0..Len(chunks)] ==
            IF i = 0 THEN f
            ELSE FtsInsert(F[i - 1], ChunkRow(doc_id, url, title, chunks[i], i - 1))
    IN F[Len(chunks)]

NoDocRet == [op |-> "none", arg |-> "", doc_id |-> "", ok |-> TRUE, existing |-> FALSE,
             deleted |-> 0, chunks |-> <<>>, committed |-> TRUE, query |-> <<>>, hits |-> {}]

\* index_url, as add_documentation calls it
IndexUrl(url, fetched) ==
    LET doc_id == DocId(url)
        existing == \E r \in doc_sources : r.id = doc_id
        chunks == chunk_text(fetched.text, CHUNK_SIZE, CHUNK_OVERLAP)
    IN /\ fetched.ok =>
             Cardinality(FtsInsertChunks(FtsDelete(doc_chunks_fts, doc_id), doc_id, url,
                                         fetched.title, chunks).index) <= MaxIndexed
       /\ IF fetched.ok
          THEN /\ doc_chunks' = InsertChunks(DeleteChunks(doc_chunks, doc_id),
                                             doc_id, url, fetched.title, chunks)
               /\ doc_chunks_fts' = FtsInsertChunks(FtsDelete(doc_chunks_fts, doc_id),
                                                    doc_id, url, fetched.title, chunks)
               /\ doc_sources' = InsertReplace(doc_sources,
                                     SourceRow(doc_id, url, fetched.title, Len(chunks), "indexed"))
               /\ docRet' = [NoDocRet EXCEPT !.op = "index_url", !.arg = url, !.doc_id = doc_id,
                                !.existing = existing,
                                !.deleted = Cardinality(doc_chunks \ DeleteChunks(doc_chunks, doc_id)),
                                !.chunks = chunks]
          ELSE /\ doc_sources' = InsertReplace(doc_sources,
                                     SourceRow(doc_id, url, "", 0, "error"))
               /\ UNCHANGED <<doc_chunks, doc_chunks_fts>>
               /\ docRet' = [NoDocRet EXCEPT !.op = "index_url", !.arg = url, !.doc_id = doc_id,
                                !.existing = existing, !.ok = FALSE]
       /\ UNCHANGED <<ctxVars, archVars, extVars>>

\* delete_source.  db.execute() runs both DELETEs in a transaction that nothing here commits:
\* whether later connections see them gone rests with the sqlite_utils connection, so the
\* call either takes effect or is rolled back when the connection is dropped
delete_source(doc_id, committed) ==
    IF committed
    THEN /\ doc_chunks' = DeleteChunks(doc_chunks, doc_id)
         /\ doc_chunks_fts' = FtsDelete(doc_chunks_fts, doc_id)
         /\ doc_sources' = DeleteSourceRow(doc_sources, doc_id)
    ELSE UNCHANGED <<doc_sources, doc_chunks, doc_chunks_fts>>

\* the tool remove_documentation
RemoveDocumentation(url_or_id, committed) ==
    /\ IF Len(url_or_id) = 16
       THEN delete_source(url_or_id, committed)
       ELSE delete_source(DocId(url_or_id), committed)
    /\ docRet' = [NoDocRet EXCEPT !.op = "remove_documentation", !.arg = url_or_id,
                     !.committed = committed]
    /\ UNCHANGED <<ctxVars, archVars, extVars>>

\* the words searched for: those of the pages' chunks and titles
SearchWords ==
    UNION {ContentTokens(fetched.text) \cup Words(fetched.title) : fetched \in Pages}
Limits == {1, 5}

\* search_docs(query, limit)
SearchDocs(query, limit) ==
    /\ \E shown \in Limited(FtsJoin(doc_chunks, doc_chunks_fts, query), limit) :
          docRet' = [NoDocRet EXCEPT !.op = "search_docs", !.query = query, !.hits = shown]
    /\ UNCHANGED <<doc_sources, doc_chunks, doc_chunks_fts>>
    /\ UNCHANGED <<ctxVars, archVars, extVars>>

NextDocs ==
    \/ \E url \in URLs, fetched \in Pages : IndexUrl(url, fetched)
    \/ \E url_or_id \in URLs \cup {DocId(u) : u \in URLs}, committed \in BOOLEAN :
          RemoveDocumentation(url_or_id, committed)
    \/ \E query \in SearchWords, limit \in Limits : SearchDocs(query, limit)

-----------------------------------------------------------------------------
(***************************************************************************)
(* chunk_text, one iteration of its while loop at a time                   *)
(***************************************************************************)
MaxTextLen == 6
MaxChunkSize == 5
\* the chunks a call is followed through: more than any returning call makes of these texts
MaxChunks == 8

TextChars == {".", " ", "\n"}
RECURSIVE TextsOfLen(_)
TextsOfLen(n) ==
    IF n = 0 THEN {<<>>} ELSE {Append(t, c) : t \in TextsOfLen(n - 1), c \in TextChars}
Texts == UNION {TextsOfLen(n) : n \in 0..MaxTextLen}

NoChunker == [pc |-> "idle", text |-> <<>>, chunk_size |-> 1, overlap |-> 0, start |-> 0,
              chunks |-> <<>>]

\* chunk_text(text, chunk_size, overlap) is entered: chunks = [], start = 0
ChunkTextCall(text, chunk_size, overlap) ==
    /\ chunker.pc = "idle"
    /\ chunker' = [pc |-> "loop", text |-> text, chunk_size |-> chunk_size,
                   overlap |-> overlap, start |-> 0, chunks |-> <<>>]
    /\ UNCHANGED notChunk

\* one evaluation of `while start < len(text)`: the body, or the return
ChunkTextIterate ==
    /\ chunker.pc = "loop"
    /\ Len(chunker.chunks) < MaxChunks
    /\ IF chunker.start < Len(chunker.text)
       THEN LET end == ChunkEnd(chunker.text, chunker.start, chunker.chunk_size)
                chunk == Strip(Slice(chunker.text, chunker.start, end))
            IN chunker' = [chunker EXCEPT
                   !.chunks = IF chunk # <<>> THEN Append(@, chunk) ELSE @,
                   !.start = IF end < Len(chunker.text) THEN end - chunker.overlap ELSE end]
       ELSE chunker' = [chunker EXCEPT !.pc = "done"]
    /\ UNCHANGED notChunk

\* `return chunks` has been taken by the caller
ChunkTextReturn ==
    /\ chunker.pc = "done"
    /\ chunker' = NoChunker
    /\ UNCHANGED notChunk

NextChunk ==
    \/ /\ chunker.pc = "idle"
       /\ \E text \in Texts, chunk_size \in 1..MaxChunkSize :
             \E overlap \in 0..(chunk_size - 1) : ChunkTextCall(text, chunk_size, overlap)
    \/ ChunkTextIterate
    \/ ChunkTextReturn

-----------------------------------------------------------------------------
(***************************************************************************)
(* Conversation Mirror Sync Utility: cursor_sync_poc.py                    *)
(*                                                                         *)
(* A bubble value is modelled by the fields sync_conversations reads: what *)
(* json.loads makes of it, its modelName and its toolResults.  A message   *)
(* row keeps id, conversation_id, model_name and has_tool_calls.           *)
(***************************************************************************)
MaxToolCalls == 3

\* bubble keys, "bubbleId:<conv>:<bubble>" split at ":" without the prefix; the last one
\* has no bubble part
BubbleKeys == {<<"c1", "b1">>, <<"c2", "b2">>, <<"c1">>}
\* their place in the order of the key text
KeyRank(key) == IF key = <<"c1">> THEN 1 ELSE IF key = <<"c1", "b1">> THEN 2 ELSE 3

\* a tool result that is an object, and one that is not
ToolT == [obj |-> TRUE, name |-> "t"]
ToolJunk == [obj |-> FALSE, name |-> ""]

Bubble(json, model_name, tool_results) ==
    [json |-> json, model_name |-> model_name, tool_results |-> tool_results]
\* {"type": 1}
PlainBubble == Bubble("object", [t |-> "null"], [t |-> "list", v |-> <<>>])
\* {"type": 2, "toolResults": [{"name": "t"}, "junk"]}
ToolBubble == Bubble("object", [t |-> "null"], [t |-> "list", v |-> <<ToolT, ToolJunk>>])
\* `{`
NotJsonBubble == Bubble("invalid", [t |-> "null"], [t |-> "list", v |-> <<>>])
\* `[]`
ArrayBubble == Bubble("array", [t |-> "null"], [t |-> "list", v |-> <<>>])
\* {"toolResults": 5}
ToolsNumberBubble == Bubble("object", [t |-> "null"], [t |-> "number", v |-> <<>>])
\* {"modelInfo": {"modelName": {"a": 1}}}
ModelObjectBubble == Bubble("object", [t |-> "object"], [t |-> "list", v |-> <<>>])
\* {"modelInfo": {"modelName": "m"}}
ModelBubble == Bubble("object", [t |-> "string"], [t |-> "list", v |-> <<>>])
\* no row under the key
NoBubble == Bubble("absent", [t |-> "null"], [t |-> "list", v |-> <<>>])
BubbleValues == {PlainBubble, ToolBubble, NotJsonBubble, ArrayBubble, ToolsNumberBubble,
                 ModelObjectBubble, ModelBubble}

ExternalMessage(bubble_id, conv_id, model_name, has_tool_calls) ==
    [id |-> bubble_id, conversation_id |-> conv_id, model_name |-> model_name,
     has_tool_calls |-> has_tool_calls]

\* INSERT OR REPLACE by primary key id
InsertOrReplace(rows, row) == {r \in rows : r.id # row.id} \cup {row}

\* INSERT INTO tool_calls for every tool result that is a dict; the id is AUTOINCREMENT
RECURSIVE InsertToolCalls(_, _, _)
InsertToolCalls(rows, bubble_id, tools) ==
    IF tools = <<>> THEN rows
    ELSE InsertToolCalls(
             IF Head(tools).obj
             THEN rows \cup {[id |-> Cardinality(rows) + 1, message_id |-> bubble_id,
                              tool_name |-> Head(tools).name]}
             ELSE rows,
             bubble_id, Tail(tools))

NoStats == [op |-> "none", raised |-> FALSE, conversations |-> 0, messages |-> 0,
            tool_calls |-> 0, errors |-> 0]

\* the body of `for key, value in bubbles` for one row; st.raised is an exception that the
\* except clause (json.JSONDecodeError, KeyError) does not catch
SyncBubble(st, key, value) ==
    IF Len(key) < 2 THEN st                                      \* len(parts) < 3: continue
    ELSE IF value.json = "invalid" THEN [st EXCEPT !.errors = @ + 1]
    ELSE IF value.json # "object" THEN [st EXCEPT !.raised = TRUE]   \* data.get
    ELSE IF value.model_name.t \notin {"null", "string"}
         THEN [st EXCEPT !.raised = TRUE]                         \* the INSERT cannot bind it
    ELSE LET has_tool_calls ==
                 IF value.tool_results.t = "list" /\ value.tool_results.v = <<>> THEN 0 ELSE 1
             inserted == InsertOrReplace(st.rows,
                             ExternalMessage(key[2], key[1], value.model_name.t, has_tool_calls))
         IN IF value.tool_results.t # "list"
            THEN [st EXCEPT !.rows = inserted, !.raised = TRUE]   \* for tool in 5
            ELSE [st EXCEPT !.rows = inserted,
                            !.tools = InsertToolCalls(@, key[2], value.tool_results.v),
                            !.tool_calls = @ + Cardinality({i \in 1..Len(value.tool_results.v) :
                                                              value.tool_results.v[i].obj}),
                            !.messages = @ + 1]

RECURSIVE SyncBubbles(_, _, _)
SyncBubbles(st, keys, kv) ==
    IF keys = <<>> \/ st.raised THEN st
    ELSE SyncBubbles(SyncBubble(st, Head(keys), kv[Head(keys)]), Tail(keys), kv)

\* the keys in the order the SELECT returns them: the order of the key
RECURSIVE KeyOrder(_)
KeyOrder(S) ==
    IF S = {} THEN <<>>
    ELSE LET m == CHOOSE x \in S : \A y \in S : KeyRank(x) <= KeyRank(y)
         IN <<m>> \o KeyOrder(S \ {m})

\* sync_conversations(cursor_conn, external_conn).  An exception leaves the function before
\* external_conn.commit(), and its callers close the connection: nothing of the run stays.
SyncConversations ==
    /\ Cardinality(external.tool_calls) < MaxToolCalls
    /\ LET st == SyncBubbles([rows |-> external.messages, tools |-> external.tool_calls,
                              raised |-> FALSE, messages |-> 0, tool_calls |-> 0,
                              errors |-> 0],
                             KeyOrder({k \in BubbleKeys : cursorKV[k] # NoBubble}), cursorKV)
       IN IF st.raised
          THEN /\ syncRet' = [NoStats EXCEPT !.op = "sync", !.raised = TRUE]
               /\ UNCHANGED <<external, syncs>>
          ELSE /\ external' = [messages |-> st.rows,
                               tool_calls |-> st.tools,
                               conversations |->
                                   {c \in external.conversations : c.id \notin workspace}
                                     \cup {[id |-> c] : c \in workspace},
                               last_sync |-> TRUE]
               /\ syncRet' = [op |-> "sync", raised |-> FALSE,
                              conversations |-> Cardinality(workspace),
                              messages |-> st.messages, tool_calls |-> st.tool_calls,
                              errors |-> st.errors]
               /\ syncs' = IF syncs = 0 THEN 1 ELSE 2
    /\ UNCHANGED <<cursorKV, workspace>>
    /\ UNCHANGED notSync

\* the host application writes a bubble row
CursorWrite(key, value) ==
    /\ cursorKV[key] # value
    /\ cursorKV' = [cursorKV EXCEPT ![key] = value]
    /\ syncs' = 0
    /\ UNCHANGED <<workspace, external, syncRet>>
    /\ UNCHANGED notSync

\* the host application opens a composer in the workspace
ComposerWrite(conv_id) ==
    /\ conv_id \notin workspace
    /\ workspace' = workspace \cup {conv_id}
    /\ syncs' = 0
    /\ UNCHANGED <<cursorKV, external, syncRet>>
    /\ UNCHANGED notSync

NextSync ==
    \/ SyncConversations
    \/ \E key \in BubbleKeys, value \in BubbleValues : CursorWrite(key, value)
    \/ \E conv_id \in {"c1"} : ComposerWrite(conv_id)

-----------------------------------------------------------------------------
(***************************************************************************)
(* Release Version Sync Automation: the `auto` command of                  *)
(* sync_cursor_versions.py.  A git command is modelled by its exit code.   *)
(***************************************************************************)
ExitCodes == {0, 1, 128}
NewVersionCounts == {0, 1, 6}

NoAuto == [pc |-> "idle", push |-> FALSE, commit_message |-> "", ran |-> <<>>,
           codes |-> <<>>, printed |-> <<>>]

\* f"chore: add Cursor versions {version_list}": the first five, and how many more
GeneratedMessage(new_versions) ==
    IF new_versions > 5 THEN "chore: add Cursor versions v1..v5 (+more)"
    ELSE "chore: add Cursor versions v1"

\* auto(commit_message, push) up to the git operations: the registry is compared, the new
\* versions are downloaded and the local registry file is rewritten
\* (hashed: some download gave a hash, and the manual update is printed)
AutoStart(new_versions, hashed, commit_message, push) ==
    /\ autoRun.pc = "idle"
    /\ autoRun' =
          IF new_versions = 0
          THEN [NoAuto EXCEPT !.pc = "done", !.printed = <<"Already up to date!">>]
          ELSE [NoAuto EXCEPT !.pc = "status", !.push = push,
                              !.printed = IF hashed THEN <<"Manual Nix Updates Required">>
                                          ELSE <<>>,
                              !.commit_message = IF commit_message # None THEN commit_message[1]
                                                 ELSE GeneratedMessage(new_versions)]
    /\ UNCHANGED notAuto

Ran(run, command, code) ==
    [run EXCEPT !.ran = Append(@, command), !.codes = Append(@, code)]
Returned(run, line) == [run EXCEPT !.pc = "done", !.printed = Append(@, line)]
Completed(run) == Returned(run, "Sync complete!")

\* git status --porcelain
StatusStep(run, code) ==
    IF code # 0 THEN Returned(Ran(run, "status", code), "Git status failed")
    ELSE [Ran(run, "status", code) EXCEPT !.pc = "add"]

\* git add <registry file>
StageStep(run, code) ==
    IF code = 0
    THEN [Ran(run, "add", code) EXCEPT !.pc = "commit", !.printed = Append(@, "Staged")]
    ELSE Returned(Ran(run, "add", code), "Failed to stage")

\* (a commit that returns when it fails, as staging does)
CommitStepFatal(run, code) ==
    IF code = 0
    THEN LET r == [Ran(run, "commit", code) EXCEPT !.printed = Append(@, "Committed")]
         IN IF run.push THEN [r EXCEPT !.pc = "push"] ELSE Completed(r)
    ELSE Returned(Ran(run, "commit", code), "Commit skipped (no changes or error)")

\* git commit -m commit_message; without push the run ends here
CommitStep(run, code) ==
    LET r == [Ran(run, "commit", code) EXCEPT
                 !.printed = Append(@, IF code = 0 THEN "Committed"
                                       ELSE "Commit skipped (no changes or error)")]
    IN IF run.push THEN [r EXCEPT !.pc = "push"] ELSE Completed(r)

\* git push
PushStep(run, code) ==
    Completed([Ran(run, "push", code) EXCEPT
                  !.printed = Append(@, IF code = 0 THEN "Pushed to remote" ELSE "Push failed")])

GitStatus(code) ==
    /\ autoRun.pc = "status"
    /\ autoRun' = StatusStep(autoRun, code)
    /\ UNCHANGED notAuto

GitAdd(code) ==
    /\ autoRun.pc = "add"
    /\ autoRun' = StageStep(autoRun, code)
    /\ UNCHANGED notAuto

GitCommit(code) ==
    /\ autoRun.pc = "commit"
    /\ autoRun' = CommitStep(autoRun, code)
    /\ UNCHANGED notAuto

GitPush(code) ==
    /\ autoRun.pc = "push"
    /\ autoRun' = PushStep(autoRun, code)
    /\ UNCHANGED notAuto

\* the command has returned; it may be run again
AutoExit ==
    /\ autoRun.pc = "done"
    /\ autoRun' = NoAuto
    /\ UNCHANGED notAuto

AutoSteps ==
    \/ \E code \in ExitCodes : GitStatus(code)
    \/ \E code \in ExitCodes : GitAdd(code)
    \/ \E code \in ExitCodes : GitCommit(code)
    \/ \E code \in ExitCodes : GitPush(code)

NextAuto ==
    \/ \E new_versions \in NewVersionCounts, hashed \in BOOLEAN,
          commit_message \in {None, Some("custom")}, push \in BOOLEAN :
          AutoStart(new_versions, hashed, commit_message, push)
    \/ AutoSteps
    \/ AutoExit

-----------------------------------------------------------------------------
(***************************************************************************)
(* compute_hashes.py: downloads in batches of `parallel`.  A transfer is   *)
(* a coroutine of compute_hash_for_url; its steps are its awaits: the      *)
(* request, the response, every chunk of the body.                         *)
(***************************************************************************)
MaxUrls == 4
MaxParallel == 3
MaxBodyChunks == 1

\* how the server answers: a body, an HTTP error, a timeout, a failed request, or a
\* content-length that int() rejects (an exception compute_hash_for_url does not catch)
Responses == {"200", "404", "timeout", "request error", "bad content-length"}

NoHashing == [pc |-> "idle", urls |-> 0, parallel |-> 1, i |-> 0,
              transfers |-> <<>>, results |-> <<>>]

Waiting == [at |-> "waiting", downloaded |-> 0, error |-> ""]

\* (a batch that takes every URL that is left)
BatchRest(i, urls, parallel) == (i + 1)..urls

\* urls[i:i + parallel], as the positions 1..urls of the URLs
Batch(i, urls, parallel) ==
    (i + 1)..(IF i + parallel < urls THEN i + parallel ELSE urls)

\* compute_hashes(urls, parallel) is entered
ComputeHashes(urls, parallel) ==
    /\ hashing.pc = "idle"
    /\ hashing' = [pc |-> "batch", urls |-> urls, parallel |-> parallel, i |-> 0,
                   transfers |-> [t \in 1..urls |-> Waiting], results |-> <<>>]
    /\ UNCHANGED notHash

\* for i in range(0, len(urls), parallel): the coroutines of the batch are made and handed
\* to asyncio.gather; past the last batch, return results
StartBatch ==
    /\ hashing.pc = "batch"
    /\ IF hashing.i < hashing.urls
       THEN hashing' = [hashing EXCEPT
                !.pc = "gather",
                !.transfers = [t \in 1..hashing.urls |->
                                 IF t \in Batch(hashing.i, hashing.urls, hashing.parallel)
                                 THEN [@[t] EXCEPT !.at = "scheduled"] ELSE @[t]]]
       ELSE hashing' = [hashing EXCEPT !.pc = "done"]
    /\ UNCHANGED notHash

\* client.stream("GET", url): the request goes out
SendRequest(t) ==
    /\ hashing.pc \in {"gather", "raised"}
    /\ hashing.transfers[t].at = "scheduled"
    /\ hashing' = [hashing EXCEPT !.transfers[t].at = "requested"]
    /\ UNCHANGED notHash

\* the response headers arrive, or the request fails
Respond(t, response) ==
    /\ hashing.pc \in {"gather", "raised"}
    /\ hashing.transfers[t].at = "requested"
    /\ hashing' = [hashing EXCEPT !.transfers[t] =
          CASE response = "200" -> [@ EXCEPT !.at = "streaming"]
            [] response = "404" -> [@ EXCEPT !.at = "failed", !.error = "HTTP 404"]
            [] response = "timeout" -> [@ EXCEPT !.at = "failed", !.error = "Timeout"]
            [] response = "request error" -> [@ EXCEPT !.at = "failed", !.error = "request error"]
            [] OTHER -> [@ EXCEPT !.at = "raised", !.error = "ValueError"]]
    /\ UNCHANGED notHash

\* async for chunk in response.aiter_bytes(): one more chunk is hashed
ReceiveChunk(t) ==
    /\ hashing.pc \in {"gather", "raised"}
    /\ hashing.transfers[t].at = "streaming"
    /\ hashing.transfers[t].downloaded < MaxBodyChunks
    /\ hashing' = [hashing EXCEPT !.transfers[t].downloaded = @ + 1]
    /\ UNCHANGED notHash

\* the body ends: HashResult(success=True), or the stream times out
EndOfBody(t, ok) ==
    /\ hashing.pc \in {"gather", "raised"}
    /\ hashing.transfers[t].at = "streaming"
    /\ hashing' = [hashing EXCEPT !.transfers[t] =
          IF ok THEN [@ EXCEPT !.at = "ok"] ELSE [@ EXCEPT !.at = "failed", !.error = "Timeout"]]
    /\ UNCHANGED notHash

HashResult(t, transfer) ==
    [url |-> t, success |-> transfer.at = "ok",
     size |-> IF transfer.at = "ok" THEN transfer.downloaded ELSE 0, error |-> transfer.error]

RECURSIVE ResultsOf(_, _, _)
ResultsOf(transfers, from, to) ==
    IF from > to THEN <<>>
    ELSE <<HashResult(from, transfers[from])>> \o ResultsOf(transfers, from + 1, to)

\* await asyncio.gather(*batch_tasks) returns when every coroutine of the batch has, with
\* their results in the order of the batch; it raises as soon as one of them has raised
GatherReturns ==
    /\ hashing.pc = "gather"
    /\ LET batch == Batch(hashing.i, hashing.urls, hashing.parallel)
       IN IF \E t \in batch : hashing.transfers[t].at = "raised"
          THEN hashing' = [hashing EXCEPT !.pc = "raised"]
          ELSE /\ \A t \in batch : hashing.transfers[t].at \in {"ok", "failed"}
               /\ hashing' = [hashing EXCEPT
                      !.pc = "batch",
                      !.results = @ \o ResultsOf(hashing.transfers, hashing.i + 1,
                                                 hashing.i + Cardinality(batch)),
                      !.i = @ + hashing.parallel]
    /\ UNCHANGED notHash

\* the caller has the results, or the exception
HashesReturn ==
    /\ hashing.pc \in {"done", "raised"}
    /\ hashing' = NoHashing
    /\ UNCHANGED notHash

NextHash ==
    \/ \E urls \in 0..MaxUrls, parallel \in 1..MaxParallel : ComputeHashes(urls, parallel)
    \/ StartBatch
    \/ \E t \in 1..hashing.urls : SendRequest(t)
    \/ \E t \in 1..hashing.urls, response \in Responses : Respond(t, response)
    \/ \E t \in 1..hashing.urls : ReceiveChunk(t)
    \/ \E t \in 1..hashing.urls, ok \in BOOLEAN : EndOfBody(t, ok)
    \/ GatherReturns
    \/ HashesReturn

-----------------------------------------------------------------------------
(***************************************************************************)
(* Legacy Desktop Chat Browser: legacy/chat_manager_gui.py, over the       *)
(* archive store of chat_db.py.  The list is the set of its rows; the      *)
(* version filter stays at "All Versions" and the search box is not used.  *)
(***************************************************************************)
MaxExports == 1

NoWindow == [open |-> FALSE, stats_label |-> [chats |-> 0, messages |-> 0, favorites |-> 0],
             tree |-> {}, selected_ids |-> {}, category_var |-> None,
             favorites_var |-> FALSE]

\* the text load_stats puts in the statistics label
StatsText(stats) ==
    [chats |-> stats.total_conversations, messages |-> stats.total_messages,
     favorites |-> stats.favorites]

\* the values of a row of the list
TreeRow(conv, selected_ids) ==
    [iid |-> conv.id, select_icon |-> conv.id \in selected_ids,
     fav_icon |-> conv.is_favorite = 1, category |-> conv.category_id,
     msgs |-> conv.message_count]

\* load_stats
load_stats(g, convs, msgs) == [g EXCEPT !.stats_label = StatsText(get_stats(convs, msgs))]

\* load_chats: the list is emptied and filled from get_conversations under the filters
load_chats(g, convs, msgs) ==
    [g EXCEPT !.tree = {TreeRow(c, g.selected_ids) :
                          c \in get_conversations(convs, msgs, g.category_var,
                                                  g.favorites_var, None)}]

\* update_row(item): the one row is rewritten from get_conversation, if there is one
update_row(g, convs, msgs, item) ==
    LET conv == get_conversation(convs, msgs, item)
    IN IF conv = None THEN g
       ELSE [g EXCEPT !.tree = {IF r.iid = item THEN TreeRow(conv[1].conv, g.selected_ids)
                                ELSE r : r \in g.tree}]

\* EnhancedChatBrowser.__init__: build_ui, load_stats, load_chats
OpenBrowser ==
    /\ ~gui.open
    /\ gui' = load_chats(load_stats([NoWindow EXCEPT !.open = TRUE], conversations, messages),
                         conversations, messages)
    /\ UNCHANGED <<archVars, exports, notGui>>

\* on_click in the select column of a row
ClickSelect(item) ==
    /\ gui.open
    /\ \E r \in gui.tree : r.iid = item
    /\ gui' = update_row([gui EXCEPT !.selected_ids =
                             IF item \in @ THEN @ \ {item} ELSE @ \cup {item}],
                         conversations, messages, item)
    /\ UNCHANGED <<archVars, exports, notGui>>

\* on_click in the favorite column of a row: toggle_favorite, update_row
ClickFavorite(item) ==
    /\ gui.open
    /\ \E r \in gui.tree : r.iid = item
    /\ conversations' = {IF c.id = item THEN [c EXCEPT !.is_favorite = 1 - @] ELSE c :
                           c \in conversations}
    /\ gui' = update_row(gui, conversations', messages, item)
    /\ UNCHANGED <<host, messages, results, imports, exports, notGui>>

\* the category filter is chosen, or "Favorites only" is ticked or unticked: load_chats
SetFilters(category_var, favorites_var) ==
    /\ gui.open
    /\ <<category_var, favorites_var>> # <<gui.category_var, gui.favorites_var>>
    /\ gui' = load_chats([gui EXCEPT !.category_var = category_var,
                                     !.favorites_var = favorites_var],
                         conversations, messages)
    /\ UNCHANGED <<archVars, exports, notGui>>

\* import_chats: import_all_versions (the main installation), load_stats, load_chats
import_chats ==
    /\ gui.open
    /\ \E conv_ids \in Orders({c \in ConvIds : DOMAIN host[c] # {}}) :
        LET st == ImportLoop([conversations |-> conversations, messages |-> messages,
                              imported |-> 0, skipped |-> 0, errors |-> <<>>],
                             host, conv_ids, "default")
        IN /\ conversations' = st.conversations
           /\ messages' = st.messages
           /\ results' = [success |-> TRUE, imported |-> st.imported, skipped |-> st.skipped,
                          errors |-> st.errors]
           /\ imports' = IF imports = 0 THEN 1 ELSE 2
           /\ gui' = load_chats(load_stats(gui, st.conversations, st.messages),
                                st.conversations, st.messages)
    /\ UNCHANGED <<host, exports, notGui>>

\* bulk_export(conv_ids): export_to_markdown of each id that get_conversation finds, which
\* adds a row to exports and sets exported_at
bulk_export(conv_ids) ==
    [c \in ConvIds |->
       IF c \in conv_ids /\ get_conversation(conversations, messages, c) # None
       THEN exports[c] + 1 ELSE exports[c]]

\* export_selected: with nothing selected a warning, else bulk_export of the selected ids
export_selected ==
    /\ gui.open
    /\ gui.selected_ids # {}
    /\ \A c \in gui.selected_ids : exports[c] < MaxExports
    /\ exports' = bulk_export(gui.selected_ids)
    /\ UNCHANGED <<archVars, gui, notGui>>

\* export_all, confirmed: bulk_export() of every conversation that is not archived
export_all ==
    /\ gui.open
    /\ \A c \in ConvIds : exports[c] < MaxExports
    /\ exports' = bulk_export({c.id : c \in get_conversations(conversations, messages,
                                                              None, FALSE, None)})
    /\ UNCHANGED <<archVars, gui, notGui>>

\* export_single(conv_id), from the window of a conversation opened from its row
export_single(conv_id) ==
    /\ gui.open
    /\ \E r \in gui.tree : r.iid = conv_id
    /\ exports[conv_id] < MaxExports
    /\ exports' = bulk_export({conv_id})
    /\ UNCHANGED <<archVars, gui, notGui>>

\* set_category_dialog(conv_id), "Set" pressed: set_category, load_chats
set_category_dialog(conv_id, category_id) ==
    /\ gui.open
    /\ \E r \in gui.tree : r.iid = conv_id
    /\ conversations' = {IF c.id = conv_id THEN [c EXCEPT !.category_id = category_id] ELSE c :
                           c \in conversations}
    /\ gui' = load_chats(gui, conversations', messages)
    /\ UNCHANGED <<host, messages, results, imports, exports, notGui>>

\* while the window is used the host writes user bubbles, and the category filter is
\* "All Categories" or the second category
NextGui ==
    \/ \E conv_id \in ConvIds, bubble \in BubbleIds : HostWrite(conv_id, bubble, UserHi)
    \/ OpenBrowser
    \/ \E item \in ConvIds : ClickSelect(item)
    \/ \E item \in ConvIds : ClickFavorite(item)
    \/ \E category_var \in {None, Some(2)}, favorites_var \in BOOLEAN :
          SetFilters(category_var, favorites_var)
    \/ import_chats
    \/ export_selected
    \/ export_all
    \/ \E conv_id \in ConvIds : export_single(conv_id)
    \/ \E conv_id \in ConvIds, category_id \in CategoryIds :
          set_category_dialog(conv_id, category_id)

-----------------------------------------------------------------------------
(***************************************************************************)
(* Traffic Capture Addon: proxy-test/payload_collector.py.  A host is the  *)
(* sequence of the pieces of its name, a path the sequence of its          *)
(* segments, a body a sequence of bytes.  A metadata record is modelled    *)
(* without its headers and its decoded grpc_messages: the addon never      *)
(* reads a record back.                                                    *)
(***************************************************************************)
\* the payloads save_payload is called with
MaxCaptured == 3

CURSOR_DOMAINS == {"cursor.sh", "cursor.com", "cursorapi.com"}

FlowHosts == {<<"api2.", "cursor.sh">>, <<"example.com">>}
FlowPaths == {<<"aiserver.v1.ChatService", "StreamChat">>, <<"health">>, <<>>}
Bodies == {<<>>, <<0, 0, 0, 0, 1, 8>>, <<97>>}

NoFlow == [direction |-> "none", host |-> <<>>, path |-> <<>>, content |-> <<>>]

NoCapture == [files |-> {}, metadata |-> {},
              stats |-> [total_captured |-> 0, by_service |-> {}, by_endpoint |-> {}],
              clock |-> 0, raised |-> FALSE, flow |-> NoFlow]

\* any(d in host for d in CURSOR_DOMAINS)
is_cursor_domain(hostname) == \E i \in 1..Len(hostname) : hostname[i] \in CURSOR_DOMAINS

\* re.match('/([^/]+)/([^/?]+)', path): the first two segments, or "unknown" and the
\* whole path, which begins with "/"
extract_service_endpoint(path) ==
    IF Len(path) >= 2
    THEN [service |-> path[1], endpoint |-> <<path[2]>>]
    ELSE [service |-> "unknown", endpoint |-> <<"/">> \o path]

\* hashlib.sha256(content).hexdigest(), as a digest that tells the contents of this
\* model apart
sha256(content) == <<"sha256">> \o content

\* f"{timestamp}_{service}_{endpoint}_{content_hash}"
Filename(timestamp, se, content) ==
    [timestamp |-> timestamp, service |-> se.service, endpoint |-> se.endpoint,
     content_hash |-> sha256(content)]

\* by_service[service] += 1, a counter being the bag of what was counted
Count(counter, key) ==
    IF \E kv \in counter : kv[1] = key
    THEN {IF kv[1] = key THEN <<key, kv[2] + 1>> ELSE kv : kv \in counter}
    ELSE counter \cup {<<key, 1>>}

\* save_payload(flow, direction, content, metadata): open(raw_path, "wb") raises
\* FileNotFoundError when the filename holds a "/", before anything is written
save_payload(c, flow) ==
    LET se == extract_service_endpoint(flow.path)
        filename == Filename(c.clock + 1, se, flow.content)
    IN IF "/" \in Range(se.endpoint)
       THEN [c EXCEPT !.clock = @ + 1, !.raised = TRUE, !.flow = flow]
       ELSE [files |-> c.files \cup {[dir |-> flow.direction, stem |-> filename,
                                       bytes |-> flow.content]},
             metadata |-> c.metadata \cup
                 {[filename |-> filename, direction |-> flow.direction,
                   service |-> se.service, endpoint |-> se.endpoint,
                   full_path |-> flow.path, host |-> flow.host,
                   content_length |-> Len(flow.content),
                   content_hash_sha256 |-> sha256(flow.content)]},
             stats |-> [total_captured |-> c.stats.total_captured + 1,
                        by_service |-> Count(c.stats.by_service, se.service),
                        by_endpoint |-> Count(c.stats.by_endpoint, se.endpoint)],
             clock |-> c.clock + 1, raised |-> FALSE, flow |-> flow]

\* PayloadCollector.request / PayloadCollector.response on a flow
Hook(flow) ==
    /\ capture.clock < MaxCaptured
    /\ capture' = IF is_cursor_domain(flow.host) /\ flow.content # <<>>
                  THEN save_payload(capture, flow)
                  ELSE [capture EXCEPT !.raised = FALSE, !.flow = flow]
    /\ UNCHANGED notCapture

\* PayloadCollector.request(flow)
RequestHook(hostname, path, content) ==
    Hook([direction |-> "request", host |-> hostname, path |-> path, content |-> content])

\* PayloadCollector.response(flow); a flow without a response has no body
ResponseHook(hostname, path, content) ==
    Hook([direction |-> "response", host |-> hostname, path |-> path, content |-> content])

NextCapture ==
    \/ \E hostname \in FlowHosts, path \in FlowPaths, content \in Bodies :
          RequestHook(hostname, path, content)
    \/ \E hostname \in FlowHosts, path \in FlowPaths, content \in Bodies :
          ResponseHook(hostname, path, content)

-----------------------------------------------------------------------------
(***************************************************************************)
(* The wire-format varint codec of cursor-agent-tui/decode_response.py     *)
(* (encode_varint is the same function in test_endpoints.py).  Bytes are   *)
(* the integers 0..255; & 0x7f, | 0x80, >> 7 and << shift are computed on  *)
(* the bits.                                                               *)
(***************************************************************************)
MaxVarint == 16500
\* values around the four- and five-byte encodings
LargeValues == {2097151, 2097152, 268435455, 268435456, 2147483647}

RECURSIVE BitAnd(_, _)
BitAnd(a, b) ==
    IF a = 0 \/ b = 0 THEN 0
    ELSE (IF a % 2 = 1 /\ b % 2 = 1 THEN 1 ELSE 0) + 2 * BitAnd(a \div 2, b \div 2)

RECURSIVE BitOr(_, _)
BitOr(a, b) ==
    IF a = 0 THEN b
    ELSE IF b = 0 THEN a
    ELSE (IF a % 2 = 1 \/ b % 2 = 1 THEN 1 ELSE 0) + 2 * BitOr(a \div 2, b \div 2)

RECURSIVE ShiftLeft(_, _)
ShiftLeft(a, n) == IF n = 0 THEN a ELSE ShiftLeft(2 * a, n - 1)

\* (an encoder that leaves the continuation bit out)
RECURSIVE encode_varint_unmarked(_)
encode_varint_unmarked(value) ==
    IF value > 127
    THEN <<BitAnd(value, 127)>> \o encode_varint_unmarked(value \div 128)
    ELSE <<value>>

\* encode_varint(value)
RECURSIVE encode_varint(_)
encode_varint(value) ==
    IF value > 127
    THEN <<BitOr(BitAnd(value, 127), 128)>> \o encode_varint(value \div 128)
    ELSE <<value>>

\* the loop of decode_varint, pos counting from 0
RECURSIVE decode_loop(_, _, _, _)
decode_loop(data, pos, result, shift) ==
    IF pos >= Len(data) THEN <<result, pos>>
    ELSE LET b == data[pos + 1]
             r == BitOr(result, ShiftLeft(BitAnd(b, 127), shift))
         IN IF BitAnd(b, 128) = 0 THEN <<r, pos + 1>>
            ELSE decode_loop(data, pos + 1, r, shift + 7)

\* decode_varint(data, pos)
decode_varint(data, pos) == decode_loop(data, pos, 0, 0)

NoVarint == [pc |-> "idle", value |-> 0, encoded |-> <<>>, decoded |-> <<0, 0>>]

\* encode_varint is called with a value
EncodeVarint(value) ==
    /\ varint.pc = "idle"
    /\ varint' = [NoVarint EXCEPT !.pc = "encoded", !.value = value,
                                  !.encoded = encode_varint(value)]
    /\ UNCHANGED notVarint

\* decode_varint is called on the encoding, from offset 0
DecodeVarint ==
    /\ varint.pc = "encoded"
    /\ varint' = [varint EXCEPT !.pc = "decoded", !.decoded = decode_varint(varint.encoded, 0)]
    /\ UNCHANGED notVarint

\* the values are dropped
VarintDone ==
    /\ varint.pc = "decoded"
    /\ varint' = NoVarint
    /\ UNCHANGED notVarint

NextVarint ==
    \/ /\ varint.pc = "idle"
       /\ \E value \in (0..MaxVarint) \cup LargeValues : EncodeVarint(value)
    \/ DecodeVarint
    \/ VarintDone

-----------------------------------------------------------------------------
(***************************************************************************)
(* The tool dispatcher of desktop-automation/agent-service.py.  A text is  *)
(* a sequence of tokens: an opening tag <tool name="...">, "{", "}", a     *)
(* member of a JSON object, a word, and the closing tag </tool>.  Params   *)
(* are the keys given, or something that is not a dict.                    *)
(***************************************************************************)
MaxPieces == 3

\* TOOLS, by the lookups each lambda makes: p[...] in order, then p.get(...)
TOOLS == [windows_search |-> [required |-> <<"pattern">>, optional |-> {}],
          mouse_click    |-> [required |-> <<>>, optional |-> {"button"}],
          system_status  |-> [required |-> <<>>, optional |-> {}]]

ToolNameSet == DOMAIN TOOLS \cup {"bogus"}
\* what the implementation does once its lambda has its arguments
Outcomes == {"ok", "failed", "raises"}
ParamSets == {[dict |-> TRUE, keys |-> {}], [dict |-> TRUE, keys |-> {"pattern"}],
              [dict |-> FALSE, keys |-> {}]}

ToolResult(success, error) == [raised |-> FALSE, success |-> success, error |-> error]
Raise(message) == [raised |-> TRUE, success |-> FALSE, error |-> message]

\* TOOLS[name](params): the lambda's lookups, then the implementation
CallTool(name, params, outcome) ==
    LET tool == TOOLS[name]
        missing == {i \in 1..Len(tool.required) : tool.required[i] \notin params.keys}
    IN IF ~params.dict /\ tool.required # <<>>
       THEN Raise("'NoneType' object is not subscriptable")
       ELSE IF ~params.dict /\ tool.optional # {}
       THEN Raise("'NoneType' object has no attribute 'get'")
       ELSE IF missing # {}
       THEN Raise("'" \o tool.required[CHOOSE i \in missing : \A k \in missing : i <= k] \o "'")
       ELSE CASE outcome = "ok" -> ToolResult(TRUE, "")
              [] outcome = "failed" -> ToolResult(FALSE, "No window matching")
              [] OTHER -> Raise("kdotool not found")

\* (a dispatcher that lets the exception through)
Unguarded(r) == r

\* try: ... except Exception as e: ToolResult(success=False, error=str(e))
Guarded(r) == IF r.raised THEN ToolResult(FALSE, r.error) ELSE r

\* execute_tool(name, params)
execute_tool(name, params, outcome) ==
    IF name \notin DOMAIN TOOLS
    THEN ToolResult(FALSE, "Unknown tool: " \o name)
    ELSE Guarded(CallTool(name, params, outcome))

OpenTag == [t \in {"<windows_search>", "<mouse_click>", "<bogus>"} |->
              CASE t = "<windows_search>" -> "windows_search"
                [] t = "<mouse_click>" -> "mouse_click"
                [] OTHER -> "bogus"]
PatternMember == "\"pattern\": \"x\""

\* what a text is put together from: tags with a blob in braces (valid JSON or not), a tag
\* whose blob has no closing brace, and stray tokens
Blobs == {<<"{", "}">>, <<"{", PatternMember, "}">>, <<"{", "{", "}", "}">>}
Pieces ==
    {<<t>> \o b \o <<"</tool>">> : t \in DOMAIN OpenTag, b \in Blobs}
    \cup {<<t, "{", PatternMember, "</tool>">> : t \in DOMAIN OpenTag}
    \cup {<<"oops">>, <<"}", "</tool>">>}

RECURSIVE TextsOf(_)
TextsOf(n) ==
    IF n = 0 THEN {<<>>}
    ELSE LET shorter == TextsOf(n - 1)
         IN shorter \cup {t \o piece : t \in {x \in shorter : TRUE}, piece \in Pieces}

\* (a greedy blob: up to the last "}" before a "</tool>")
BlobEndGreedy(text, i) ==
    LET ends == {j \in (i + 2)..(Len(text) - 1) : text[j] = "}" /\ text[j + 1] = "</tool>"}
    IN IF ends = {} THEN 0 ELSE CHOOSE j \in ends : \A k \in ends : k <= j

\* ({.*?})</tool> from the "{" at i + 1: the first "}" that "</tool>" follows, or 0
BlobEnd(text, i) ==
    LET ends == {j \in (i + 2)..(Len(text) - 1) : text[j] = "}" /\ text[j + 1] = "</tool>"}
    IN IF ends = {} THEN 0 ELSE CHOOSE j \in ends : \A k \in ends : j <= k

\* re.findall(pattern, text, re.DOTALL) from position i: the leftmost match, then the
\* rest of the text after it
RECURSIVE FindAll(_, _)
FindAll(text, i) ==
    IF i + 3 > Len(text) THEN <<>>
    ELSE IF text[i] \in DOMAIN OpenTag /\ text[i + 1] = "{" /\ BlobEnd(text, i) # 0
    THEN <<[name |-> OpenTag[text[i]], params_str |-> SubSeq(text, i + 1, BlobEnd(text, i))]>>
         \o FindAll(text, BlobEnd(text, i) + 2)
    ELSE FindAll(text, i + 1)

\* json.loads(params_str), with except json.JSONDecodeError: params = {}
json_loads_or_empty(params_str) ==
    IF params_str = <<"{", PatternMember, "}">> THEN [dict |-> TRUE, keys |-> {"pattern"}]
    ELSE [dict |-> TRUE, keys |-> {}]

\* parse_and_execute(text), the desktop answering each tool as `env` says
parse_and_execute(text, env) ==
    LET matches == FindAll(text, 1)
    IN [k \in 1..Len(matches) |->
          LET params == json_loads_or_empty(matches[k].params_str)
          IN [tool |-> matches[k].name, params |-> params,
              result |-> execute_tool(matches[k].name, params,
                                      IF matches[k].name \in DOMAIN env
                                      THEN env[matches[k].name] ELSE "ok")]]

NoAgent == [pc |-> "idle", name |-> "", params |-> [dict |-> TRUE, keys |-> {}],
            outcome |-> "ok", result |-> ToolResult(TRUE, ""),
            text |-> <<>>, env |-> <<>>, results |-> <<>>]

\* execute_tool is called
ExecuteTool(name, params, outcome) ==
    /\ agent.pc = "idle"
    /\ agent' = [NoAgent EXCEPT !.pc = "executed", !.name = name, !.params = params,
                                !.outcome = outcome,
                                !.result = execute_tool(name, params, outcome)]
    /\ UNCHANGED notAgent

\* parse_and_execute is called on a text
ParseAndExecute(text, env) ==
    /\ agent.pc = "idle"
    /\ agent' = [NoAgent EXCEPT !.pc = "parsed", !.text = text, !.env = env,
                                !.results = parse_and_execute(text, env)]
    /\ UNCHANGED notAgent

\* the caller has the result
AgentReturn ==
    /\ agent.pc # "idle"
    /\ agent' = NoAgent
    /\ UNCHANGED notAgent

NextAgent ==
    \/ /\ agent.pc = "idle"
       /\ \E name \in ToolNameSet, params \in ParamSets, outcome \in Outcomes :
             ExecuteTool(name, params, outcome)
    \/ /\ agent.pc = "idle"
       /\ \E text \in TextsOf(MaxPieces),
             env \in [{"windows_search", "mouse_click"} -> {"ok", "failed"}] :
             ParseAndExecute(text, env)
    \/ AgentReturn

-----------------------------------------------------------------------------
(***************************************************************************)
(* sync_cursor_versions.py: compare_versions, check and sync.  A registry  *)
(* is the list under its "versions" key; a version record is its version   *)
(* string and the platforms it has a URL for; a URL is the pair of version *)
(* and platform, and the artifact behind a URL is known by that URL.       *)
(***************************************************************************)
MaxVersions == 2
MaxRegistry == 2

VersionStrings == {"2.0", "2.1", "2.2"}
Platforms == {"linux-x64", "linux-arm64"}
PlatformLists == {<<"linux-x64">>, <<"linux-arm64">>, <<"linux-x64", "linux-arm64">>,
                  <<"linux-arm64", "linux-x64">>}

VersionRecord(version, platforms) == [version |-> version, platforms |-> platforms]
Url(version, platform) == <<version, platform>>

\* the registries compare_versions is tried on: any order, repeats, local ahead of upstream
RECURSIVE RegistriesOf(_)
RegistriesOf(n) ==
    IF n = 0 THEN {<<>>}
    ELSE LET shorter == RegistriesOf(n - 1)
         IN shorter \cup {Append(r, VersionRecord(v, {"linux-x64"})) :
                            r \in shorter, v \in VersionStrings}

\* (a comparison that reports every upstream record)
compare_versions_all(github, local) == github

\* compare_versions(github, local)
compare_versions(github, local) ==
    LET local_versions == {local[i].version : i \in 1..Len(local)}
        F[i \in 0..Len(github)] ==
            IF i = 0 THEN <<>>
            ELSE IF github[i].version \notin local_versions THEN Append(F[i - 1], github[i])
            ELSE F[i - 1]
    IN F[Len(github)]

\* download_and_hash(url, version, platform): the hash of the cached file if there is one,
\* else of the download, else None
download_and_hash(url, cache, ok) ==
    IF url \in cache \/ url \in ok THEN Some(sha256(url)) ELSE None

\* hashes[version] = hash_result
PutHash(hashes, version, hash) == {h \in hashes : h[1] # version} \cup {<<version, hash>>}

\* for platform in platform_list, for one version
RECURSIVE HashPlatforms(_, _, _, _, _)
HashPlatforms(st, v, platform_list, i, ok) ==
    IF i > Len(platform_list) THEN st
    ELSE IF platform_list[i] \notin v.platforms
    THEN HashPlatforms(st, v, platform_list, i + 1, ok)
    ELSE LET url == Url(v.version, platform_list[i])
             hash_result == download_and_hash(url, st.cache, ok)
         IN HashPlatforms(
              IF hash_result # None
              THEN [st EXCEPT !.hashes = PutHash(@, v.version, hash_result[1]),
                              !.cache = @ \cup {url}]
              ELSE [st EXCEPT !.failed = @ \cup {v.version}],
              v, platform_list, i + 1, ok)

\* for v in new_versions
RECURSIVE HashVersions(_, _, _, _, _)
HashVersions(st, new_versions, k, platform_list, ok) ==
    IF k > Len(new_versions) THEN st
    ELSE HashVersions(HashPlatforms(st, new_versions[k], platform_list, 1, ok),
                      new_versions, k + 1, platform_list, ok)

\* update_nix_file(new_versions, hashes): the attribute blocks it prints
update_nix_file(new_versions, hashes) ==
    {[version |-> new_versions[k].version,
      hash |-> (CHOOSE h \in hashes : h[1] = new_versions[k].version)[2],
      srcUrl |-> Url(new_versions[k].version, "linux-x64")] :
        k \in {j \in 1..Len(new_versions) :
                  /\ "linux-x64" \in new_versions[j].platforms
                  /\ \E h \in hashes : h[1] = new_versions[j].version}}

\* (a registry file rewritten only when something was hashed)
update_local_if_hashed(github, local, hashes) == IF hashes # {} THEN github ELSE local

\* update_local_version_history(github)
update_local_version_history(github, local, hashes) == github

NoRegistry == [upstream |-> <<>>, local |-> <<>>, cache |-> {}, failed |-> {},
               command |-> "none", new_versions |-> <<>>, hashes |-> {}, blocks |-> {},
               github |-> <<>>, against |-> <<>>, compared |-> <<>>]

\* upstream publishes a version it did not have
Publish(version, platforms) ==
    /\ Len(registry.upstream) < MaxVersions
    /\ \A i \in 1..Len(registry.upstream) : registry.upstream[i].version # version
    /\ registry' = [registry EXCEPT !.upstream = Append(@, VersionRecord(version, platforms)),
                                    !.command = "none", !.github = <<>>, !.against = <<>>,
                                    !.compared = <<>>]
    /\ UNCHANGED notRegistry

\* check: the new versions are shown
Check ==
    /\ registry' = [registry EXCEPT
          !.command = "check", !.github = <<>>, !.against = <<>>, !.compared = <<>>,
          !.new_versions = compare_versions(registry.upstream, registry.local),
          !.hashes = {}, !.blocks = {}]
    /\ UNCHANGED notRegistry

\* sync(platforms), the downloads of the URLs in `ok` succeeding
Sync(platform_list, ok) ==
    LET new_versions == compare_versions(registry.upstream, registry.local)
        st == HashVersions([hashes |-> {}, cache |-> registry.cache, failed |-> {}],
                           new_versions, 1, platform_list, ok)
    IN /\ registry' =
            IF new_versions = <<>>
            THEN [registry EXCEPT !.command = "sync", !.new_versions = <<>>,
                                  !.hashes = {}, !.blocks = {},
                                  !.github = <<>>, !.against = <<>>, !.compared = <<>>]
            ELSE [registry EXCEPT
                    !.command = "sync", !.github = <<>>, !.against = <<>>, !.compared = <<>>,
                    !.new_versions = new_versions,
                    !.hashes = st.hashes,
                    !.cache = st.cache,
                    !.failed = @ \cup st.failed,
                    !.local = update_local_version_history(registry.upstream, registry.local,
                                                           st.hashes),
                    !.blocks = IF st.hashes # {} THEN update_nix_file(new_versions, st.hashes)
                               ELSE {}]
       /\ UNCHANGED notRegistry

\* the URLs a sync would ask the network for
Wanted(new_versions, platform_list) ==
    {Url(new_versions[k].version, platform_list[i]) :
        k \in 1..Len(new_versions),
        i \in {j \in 1..Len(platform_list) : platform_list[j] \in Platforms}}
    \ registry.cache

\* compare_versions is called on two registries
CompareVersions(github, local) ==
    /\ registry' = [registry EXCEPT !.command = "compare", !.github = github,
                                    !.against = local, !.new_versions = <<>>,
                                    !.hashes = {}, !.blocks = {},
                                    !.compared = compare_versions(github, local)]
    /\ UNCHANGED notRegistry

NextRegistry ==
    \/ \E version \in VersionStrings, platforms \in (SUBSET Platforms) \ {{}} :
          Publish(version, platforms)
    \/ Check
    \/ \E platform_list \in PlatformLists :
          \E ok \in SUBSET Wanted(compare_versions(registry.upstream, registry.local),
                                  platform_list) :
             Sync(platform_list, ok)
    \/ /\ registry.upstream = <<>>
       /\ \E github \in RegistriesOf(MaxRegistry), local \in RegistriesOf(MaxRegistry) :
             CompareVersions(github, local)

-----------------------------------------------------------------------------
(***************************************************************************)
(* Traffic Interception Logger Addon: proxy-test/test_cursor_proxy.py.     *)
(* Hosts, paths and content types are sequences of pieces of text, bodies  *)
(* sequences of bytes.                                                     *)
(***************************************************************************)
MaxRequests == 4

WATCHED_DOMAINS == {"api.cursor.com", "api2.cursor.sh", "api3.cursor.sh", "cursor.sh",
                    "cursorapi.com", "api.anthropic.com", "api.openai.com"}
AI_PATTERNS == {"aiservice", "stream", "chat", "generate", "memory", "conversation",
                "completion"}

\* str.lower() on the pieces used here
LowerPiece(piece) ==
    CASE piece = "Chat" -> "chat"
      [] piece = "Stream" -> "stream"
      [] piece = "Service/" -> "service/"
      [] OTHER -> piece

ProxyHosts == {<<"api2.cursor.sh">>, <<"www.", "example.com">>}
ProxyPaths == {<<"/aiserver.v1.", "Chat", "Service/", "Stream", "Chat">>, <<"/auth/", "poll">>}
ContentTypes == {<<"application/", "grpc">>, <<"application/", "json">>}
ProxyBodies == {<<>>, <<123, 125>>, <<0, 0, 0, 0, 0>>}

\* any(pattern.lower() in path.lower() for pattern in AI_PATTERNS)
is_ai_endpoint(path) == \E i \in 1..Len(path) : LowerPiece(path[i]) \in AI_PATTERNS

NoProxy == [stats |-> [requests |-> 0, cursor_requests |-> 0, ai_endpoints |-> 0,
                       grpc_payloads |-> 0, endpoints_seen |-> {}],
            files |-> 0, raised |-> FALSE,
            flow |-> [host |-> <<>>, path |-> <<>>, content_type |-> <<>>, content |-> <<>>]]

\* (a hook that does not count the request)
CountRequestNever(stats) == stats

\* stats["requests"] += 1
CountRequest(stats) == [stats EXCEPT !.requests = @ + 1]

\* CursorProxyTest.request(flow); `saved`: save_payload could write its file
ProxyRequest(flow, saved) ==
    /\ proxy.stats.requests < MaxRequests
    /\ LET counted == CountRequest(proxy.stats)
           is_cursor == \E i \in 1..Len(flow.host) : flow.host[i] \in WATCHED_DOMAINS
           cursor == [counted EXCEPT !.cursor_requests = @ + 1,
                                     !.endpoints_seen = @ \cup {<<flow.host, flow.path>>}]
           ai == [cursor EXCEPT !.ai_endpoints = @ + 1]
           grpc == "grpc" \in Range(flow.content_type)
                   \/ "protobuf" \in Range(flow.content_type)
                   \/ flow.content[1] # 123
       IN proxy' =
            IF ~is_cursor
            THEN [proxy EXCEPT !.stats = counted, !.raised = FALSE, !.flow = flow]
            ELSE IF ~is_ai_endpoint(flow.path)
            THEN [proxy EXCEPT !.stats = cursor, !.raised = FALSE, !.flow = flow]
            ELSE IF flow.content = <<>> \/ ~grpc
            THEN [proxy EXCEPT !.stats = ai, !.raised = FALSE, !.flow = flow]
            ELSE [proxy EXCEPT !.stats = [ai EXCEPT !.grpc_payloads = @ + 1],
                               !.files = IF saved THEN @ + 1 ELSE @,
                               !.raised = ~saved, !.flow = flow]
    /\ UNCHANGED notProxy

NextProxy ==
    \E hostname \in ProxyHosts, path \in ProxyPaths, content_type \in ContentTypes,
       content \in ProxyBodies, saved \in BOOLEAN :
        ProxyRequest([host |-> hostname, path |-> path, content_type |-> content_type,
                      content |-> content], saved)

-----------------------------------------------------------------------------
(***************************************************************************)
(* Memory Payload Deep Decoder: proxy-test/decode_memory_payload.py.       *)
(* A payload is a sequence of bytes; offsets count from 0 as in the code.  *)
(***************************************************************************)
MaxRepeat == 3
OverLimit == 2

\* `if len(fields) > 500`
FIELD_LIMIT == 500
\* max_depth: int = 15
MAX_DEPTH == 15

\* the loop of read_varint
RECURSIVE read_varint_loop(_, _, _, _)
read_varint_loop(data, offset, value, shift) ==
    IF offset >= Len(data) THEN <<value, offset>>
    ELSE LET byte == data[offset + 1]
             v == BitOr(value, ShiftLeft(BitAnd(byte, 127), shift))
         IN IF BitAnd(byte, 128) = 0 THEN <<v, offset + 1>>
            ELSE read_varint_loop(data, offset + 1, v, shift + 7)

\* read_varint(data, offset): (value, new_offset)
read_varint(data, offset) == read_varint_loop(data, offset, 0, 0)

\* int.from_bytes(content, 'little')
RECURSIVE from_bytes_little(_)
from_bytes_little(content) ==
    IF content = <<>> THEN 0 ELSE Head(content) + 256 * from_bytes_little(Tail(content))

DecodedField(number, wire_type, value, raw_length, children) ==
    [number |-> number, wire_type |-> wire_type, value |-> value, raw_length |-> raw_length,
     children |-> children]

\* content.decode('utf-8') succeeds and every character is printable or one of "\n\r\t ".
\* The payloads used here have no byte above 127 inside a length-delimited field, so the
\* text is ASCII.
IsPrintableText(content) ==
    \A i \in 1..Len(content) : content[i] \in (32..126) \cup {9, 10, 13}

RECURSIVE decode_message(_, _)

\* the field made of a length-delimited content: text if it decodes as printable text, a
\* nested message if decode_message finds fields in it, else hex or a byte count
delimited_field(field_num, content, children) ==
    IF IsPrintableText(content)
    THEN DecodedField(field_num, 2, <<"text", content>>, Len(content), <<>>)
    ELSE IF children # <<>>
    THEN DecodedField(field_num, 2, <<"message", Len(children)>>, Len(content), children)
    ELSE IF Len(content) <= 100
    THEN DecodedField(field_num, 2, <<"hex", content>>, Len(content), <<>>)
    ELSE DecodedField(field_num, 2, <<"bytes", Len(content)>>, Len(content), <<>>)

\* wire type 2, `length` being what read_varint gave: (length, offset of the content).
\* `content` is the pair of the content and of what decode_message makes of it.
decode_delimited(data, start_offset, depth, field_num, length) ==
    IF length[2] + length[1] > Len(data) THEN <<None, start_offset>>
    ELSE CHOOSE decoded \in
             {<<Some(delimited_field(field_num, content[1], content[2])),
                length[2] + length[1]>> :
                 content \in {<<SubSeq(data, length[2] + 1, length[2] + length[1]),
                                decode_message(SubSeq(data, length[2] + 1,
                                                      length[2] + length[1]), depth + 1)>>}} :
             TRUE

\* wire type 0, `value` being what read_varint gave
decode_varint_field(start_offset, field_num, value) ==
    <<Some(DecodedField(field_num, 0, <<"int", value[1]>>, value[2] - start_offset, <<>>)),
      value[2]>>

\* wire types 1 and 5: `width` bytes, little-endian
decode_fixed(data, start_offset, at, field_num, wire_type, width) ==
    IF at + width > Len(data) THEN <<None, start_offset>>
    ELSE <<Some(DecodedField(field_num, wire_type,
                             <<"int", from_bytes_little(SubSeq(data, at + 1, at + width))>>,
                             width, <<>>)), at + width>>

\* decode_field after the tag is read: field_num = tag >> 3, wire_type = tag & 0x07, `at`
\* the offset after the tag
decode_tagged(data, start_offset, depth, field_num, wire_type, at) ==
    IF field_num = 0 \/ field_num > 536870911 THEN <<None, start_offset>>
    ELSE IF wire_type = 0
    THEN decode_varint_field(start_offset, field_num, read_varint(data, at))
    ELSE IF wire_type = 1 THEN decode_fixed(data, start_offset, at, field_num, wire_type, 8)
    ELSE IF wire_type = 2
    THEN decode_delimited(data, start_offset, depth, field_num, read_varint(data, at))
    ELSE IF wire_type = 5 THEN decode_fixed(data, start_offset, at, field_num, wire_type, 4)
    ELSE <<None, start_offset>>

field_of_tag(data, start_offset, depth, tag) ==
    decode_tagged(data, start_offset, depth, tag[1] \div 8, BitAnd(tag[1], 7), tag[2])

\* decode_field(data, offset, depth): (field or None, new_offset)
decode_field(data, offset, depth) ==
    IF offset >= Len(data) THEN <<None, offset>>
    ELSE field_of_tag(data, offset, depth, read_varint(data, offset))

\* the end of one turn of the loop, `decoded` being what decode_field gave
turn_after(offset, fields, decoded) ==
    IF decoded[1] = None \/ decoded[2] = offset
    THEN [fields |-> fields, offset |-> offset, more |-> FALSE]
    ELSE [fields |-> Append(fields, decoded[1][1]), offset |-> decoded[2],
          more |-> ~(Len(fields) + 1 > FIELD_LIMIT)]

\* one turn of the while loop of decode_message: the fields and offset after it, and
\* whether the loop goes on
decode_message_turn(data, offset, fields, depth) ==
    IF offset >= Len(data) THEN [fields |-> fields, offset |-> offset, more |-> FALSE]
    ELSE turn_after(offset, fields, decode_field(data, offset, depth))

\* the while loop of decode_message
RECURSIVE decode_message_loop(_, _, _, _)
decode_message_loop(data, offset, fields, depth) ==
    CHOOSE returned \in
        {IF turn.more THEN decode_message_loop(data, turn.offset, turn.fields, depth)
         ELSE turn.fields : turn \in {decode_message_turn(data, offset, fields, depth)}} :
        TRUE

\* decode_message(data, depth)
decode_message(data, depth) ==
    IF depth > MAX_DEPTH THEN <<>> ELSE decode_message_loop(data, 0, <<>>, depth)

\* payloads: a field repeated a few times, as it is, inside a length-delimited field, or cut
\* short, and a field repeated about as often as the limit
FieldUnits == {<<8, 1>>, <<8, 200, 1>>, <<13, 1, 0, 0, 0>>, <<9, 1, 0, 0, 0, 0, 0, 0, 0>>,
               <<18, 1, 65>>, <<18, 2, 8, 1>>, <<0>>, <<11, 1>>}
LongUnits == {<<8, 1>>, <<18, 2, 8, 1>>}
Repeated(unit, n) == [i \in 1..(n * Len(unit)) |-> unit[((i - 1) % Len(unit)) + 1]]
LengthDelimited(content) == <<10>> \o encode_varint(Len(content)) \o content
RECURSIVE Nested(_, _)
Nested(content, levels) ==
    IF levels = 0 THEN content ELSE LengthDelimited(Nested(content, levels - 1))
Payloads ==
    LET plain == {Repeated(unit, n) : unit \in FieldUnits, n \in 0..MaxRepeat}
    IN plain \cup {LengthDelimited(data) : data \in plain}
             \cup {Repeated(unit, n) : unit \in LongUnits,
                                       n \in (FIELD_LIMIT - 1)..(FIELD_LIMIT + OverLimit)}
             \cup {SubSeq(data, 1, Len(data) - 1) : data \in plain \ {<<>>}}
             \cup {Nested(<<8, 1>>, levels) : levels \in 1..MaxRepeat}

NoDecoder == [pc |-> "idle", data |-> <<>>, offset |-> 0, fields |-> <<>>]

\* a captured payload is read from its file
LoadPayload(data) ==
    /\ decoder.pc = "idle"
    /\ decoder' = [NoDecoder EXCEPT !.pc = "loop", !.data = data]
    /\ UNCHANGED notDecoder

DecoderAfter(turn) ==
    [decoder EXCEPT !.pc = IF turn.more THEN "loop" ELSE "decoded",
                    !.offset = turn.offset, !.fields = turn.fields]

\* fields = decode_message(data): one turn of its loop at depth 0; the call returns when
\* the loop ends
DecodeMessage ==
    /\ decoder.pc = "loop"
    /\ decoder' = DecoderAfter(decode_message_turn(decoder.data, decoder.offset,
                                                    decoder.fields, 0))
    /\ UNCHANGED notDecoder

DecoderDone ==
    /\ decoder.pc = "decoded"
    /\ decoder' = NoDecoder
    /\ UNCHANGED notDecoder

NextDecoder ==
    \/ decoder.pc = "idle" /\ \E data \in Payloads : LoadPayload(data)
    \/ DecodeMessage
    \/ DecoderDone

-----------------------------------------------------------------------------
Init ==
    /\ items = <<>>
    /\ disk = NoFile
    /\ now = 0
    /\ proc = "running"
    /\ ret = NoRet
    /\ host = [c \in ConvIds |-> <<>>]
    /\ conversations = {}
    /\ messages = {}
    /\ results = NoResults
    /\ imports = 0
    /\ doc_sources = {}
    /\ doc_chunks = {}
    /\ docRet = NoDocRet
    /\ doc_chunks_fts = NoFts
    /\ chunker = NoChunker
    /\ cursorKV = [k \in BubbleKeys |-> NoBubble]
    /\ workspace = {}
    /\ external = [messages |-> {}, tool_calls |-> {}, conversations |-> {}, last_sync |-> FALSE]
    /\ syncs = 0
    /\ syncRet = NoStats
    /\ autoRun = NoAuto
    /\ hashing = NoHashing
    /\ gui = NoWindow
    /\ exports = [c \in ConvIds |-> 0]
    /\ capture = NoCapture
    /\ varint = NoVarint
    /\ agent = NoAgent
    /\ registry = NoRegistry
    /\ proxy = NoProxy
    /\ decoder = NoDecoder

NextCtx ==
    \/ \E key \in Keys, content \in Contents, category \in Categories, priority \in Priorities,
          expires_hours \in ExpiresHours :
          InjectContext(key, content, category, priority, expires_hours, None)
    \/ \E conversation_summary \in Contents, key \in Keys, priority \in Priorities :
          SummarizeConversationForInjection(conversation_summary, key, priority)
    \/ \E project_name \in ProjectNames, context \in Contents, priority \in Priorities :
          InjectProjectContext(project_name, context, priority)
    \/ \E key \in Keys, content \in Contents, category \in Categories, priority \in Priorities :
          CliAdd(key, content, category, priority)
    \/ \E key \in Keys \cup {ProjectKey(n) : n \in ProjectNames} : RemoveInjectedContext(key)
    \/ \E query \in Queries, category \in {None} \cup {Some(c) : c \in Categories} :
          Search(query, category)
    \/ \E query \in {None} \cup {Some(q) : q \in Queries},
          category \in {None} \cup {Some(c) : c \in Categories \cup {<<>>}},
          max_tokens \in TokenBudgets :
          GetInjectedContext(query, category, max_tokens)
    \/ ListInjectedContext
    \/ Tick
    \/ Construct
    \/ Reply

\* the context store with its document also written from outside
NextCtxLoad ==
    \/ \E doc \in ForeignDocs : ExternalWrite(doc)
    \/ Construct
    \/ Reply
    \/ \E key \in Keys, content \in Contents, category \in Categories, priority \in Priorities :
          CliAdd(key, content, category, priority)
    \/ \E key \in Keys : RemoveInjectedContext(key)

SpecCtx == Init /\ [][NextCtx]_vars
SpecCtxLoad == Init /\ [][NextCtxLoad]_vars
SpecArch == Init /\ [][NextArch]_vars
SpecDocs == Init /\ [][NextDocs]_vars
SpecSync == Init /\ [][NextSync]_vars
SpecHash == Init /\ [][NextHash]_vars
SpecGui == Init /\ [][NextGui]_vars
SpecCapture == Init /\ [][NextCapture]_vars
SpecVarint == Init /\ [][NextVarint]_vars
SpecAgent == Init /\ [][NextAgent]_vars
SpecRegistry == Init /\ [][NextRegistry]_vars
SpecProxy == Init /\ [][NextProxy]_vars
SpecDecoder == Init /\ [][NextDecoder]_vars
\* a git command that was started returns
SpecAuto == Init /\ [][NextAuto]_vars /\ WF_vars(AutoSteps)
\* the loop of chunk_text is not suspended: an iteration that can run does run
SpecChunk == Init /\ [][NextChunk]_vars /\ WF_vars(ChunkTextIterate)

-----------------------------------------------------------------------------
(***************************************************************************)
(* Properties                                                              *)
(***************************************************************************)

\* ---- Conversation Archive Store ----
HostConvs == {c \in ConvIds : DOMAIN host[c] # {}}
HashOf(c) == ContentHash(MessagesData(host, c))
HashStored(rows, c) == \E r \in rows : r.content_hash = HashOf(c)
Parseable(c) == ParsedMessages(MessagesData(host, c)) # <<>>
IdConflict(rows, c) == \E r \in rows : r.id = c /\ r.content_hash # HashOf(c)

\* a step that is import_from_cursor run again on a host not written since the last import
RerunStep ==
    /\ imports >= 1
    /\ imports' = 2
    /\ results'.success
    /\ imports = 1 \/ results' # results

\* C1, as amended: when import_from_cursor runs again against an unchanged host database, it
\* adds no conversation row and no message row, `imported` stays 0, and `skipped` counts
\* exactly the host conversations whose content hash is stored; every host conversation with
\* at least one bubble that parses and whose id is not stored under another hash has its
\* hash on exactly one stored conversation.
C1_RerunSkips ==
    [][RerunStep =>
        /\ conversations' = conversations
        /\ messages' = messages
        /\ results'.imported = 0
        /\ results'.skipped = Cardinality({c \in HostConvs : HashStored(conversations, c)})
        /\ \A c \in HostConvs :
              (Parseable(c) /\ ~IdConflict(conversations, c)) =>
                  Cardinality({r \in conversations' : r.content_hash = HashOf(c)}) = 1]_vars

\* two host conversations with the same bubble values were imported twice: one row, two skips
C1_Witness ==
    /\ imports = 2
    /\ results.success
    /\ results.skipped = 2
    /\ results.imported = 0
    /\ Cardinality(conversations) = 1

\* C1, as claimed: after the second run every host conversation is stored exactly once and
\* every one of them incremented `skipped`, `imported` is 0 and no message row was added.
C1_AsClaimed ==
    [][RerunStep =>
        /\ \A c \in HostConvs : Cardinality({r \in conversations' : r.id = c}) = 1
        /\ results'.skipped = Cardinality(HostConvs)
        /\ results'.imported = 0
        /\ messages' = messages]_vars

\* C12: the stored messages of every stored conversation carry the sequence numbers
\* 0..n-1, n being how many are stored, in the order of their host keys.
C12_SequenceDense ==
    \A c \in conversations :
        LET mine == {m \in messages : m.conversation_id = c.id}
        IN /\ {m.sequence : m \in mine} = 0..(Cardinality(mine) - 1)
           /\ \A m1, m2 \in mine : m1.id < m2.id => m1.sequence < m2.sequence

\* C13: an archived conversation is in no result of get_conversations, with or without a
\* search term, and in no figure of get_stats (the figures are those of the store without
\* it and its messages); get_conversation still returns it; and no step removes a
\* conversation row.
C13_ArchivedHidden ==
    /\ [](\A c \in conversations :
            c.is_archived = 1 =>
                /\ \A category_id \in {None} \cup {Some(k) : k \in CategoryIds},
                      favorites_only \in BOOLEAN,
                      search_term \in {None} \cup {Some(t) : t \in SearchTerms} :
                      c \notin get_conversations(conversations, messages, category_id,
                                                 favorites_only, search_term)
                /\ get_stats(conversations, messages)
                     = get_stats(conversations \ {c},
                                 {m \in messages : m.conversation_id # c.id})
                /\ get_conversation(conversations, messages, c.id) # None
                /\ get_conversation(conversations, messages, c.id)[1].conv = c)
    /\ [][\A c \in conversations : \E d \in conversations' : d.id = c.id]_vars

\* ---- Context Injection store ----
NoneExpired(out, t) == \A i \in 1..Len(out) : ~Expired(out[i], t)

\* C2: an item whose expires_at is before the time of the call is returned neither by search
\* nor by the category-scoped listing, and the full listing still shows every stored item.
C2_ExpiredExcluded ==
    /\ ret.op \in {"search", "get_injected_context(query)", "get_injected_context(category)"}
          => NoneExpired(ret.out, ret.at)
    /\ ret.op = "list_injected_context" => Range(ret.out) = Range(items)

\* C3: get_injected_context with neither query nor category returns no expired item.
C3_AllContextNotExpired ==
    ret.op = "get_injected_context()" => NoneExpired(ret.out, ret.at)

\* C4: every stored item has a priority between 1 and 10.
C4_PriorityInRange ==
    \A i \in 1..Len(items) : items[i].priority >= 1 /\ items[i].priority <= 10

\* a step that is a call of ContextStore.add
AddStep == ret = NoRet /\ ret'.kind = "stored"

\* C5: add with a stored key puts the new item's content, priority and category in that
\* item's place and keeps the number of items; add with a new key makes the store one item
\* larger; either way every item under another key is as it was.
C5_AddUpserts ==
    [][AddStep =>
        LET item == ret'.out[1]
            at == {i \in 1..Len(items') : items'[i].key = item.key}
        IN /\ Len(items') = IF item.key \in StoredKeys(items) THEN Len(items) ELSE Len(items) + 1
           /\ Cardinality(at) = 1
           /\ \A i \in at : /\ items'[i].content = item.content
                            /\ items'[i].priority = item.priority
                            /\ items'[i].category = item.category
           /\ {it \in Range(items') : it.key # item.key} = {it \in Range(items) : it.key # item.key}]_vars

\* an item was added again under its key after a later key was inserted: it kept the first place
C5_Witness ==
    /\ ret.kind = "stored"
    /\ Len(items) = 2
    /\ items[1].key = ret.key
    /\ items[1].created_at > items[2].created_at

\* C6: the document on disk holds the items in memory: a store constructed from it has the
\* same keys, in the same order, with the same fields.
C6_DiskHoldsItems ==
    proc = "running" => load(disk) = [raised |-> FALSE, items |-> items]

\* an item with an expiry and a source is what is left after a removal was saved
C6_Witness ==
    /\ ret.op = "remove"
    /\ ret.kind = "Removed"
    /\ Len(items) = 1
    /\ items[1].expires_at # None
    /\ disk # NoFile

\* C7: constructing a store never fails, and from a document that is not valid JSON, not an
\* object of objects, or has entries with missing or unknown fields, it comes up empty.
C7_ConstructNeverFails ==
    ret.op = "construct" =>
        /\ ret.kind = "ok"
        /\ proc = "running"
        /\ disk \in InvalidDocs => items = <<>>

\* C8: the document of get_all_context holds its items by priority descending, then creation
\* time, and is no longer than max_tokens * 4 characters.
C8_AllContextWithinBudget ==
    (ret.op = "get_injected_context()" /\ ret.kind = "# Injected Context") =>
        /\ \A i, k \in 1..Len(ret.out) :
              i < k => \/ ret.out[i].priority > ret.out[k].priority
                       \/ /\ ret.out[i].priority = ret.out[k].priority
                          /\ ret.out[i].created_at >= ret.out[k].created_at
        /\ ret.len <= ret.budget * 4

\* ---- Documentation index ----
\* C9: after index_url succeeds, the chunk rows of the source are the chunks of this fetch,
\* ids <source-id>:0 .. <source-id>:n-1, none left from an earlier indexing, and the
\* source's chunk count is n.
C9_ReindexReplaces ==
    (docRet.op = "index_url" /\ docRet.ok) =>
        LET n == Len(docRet.chunks)
            mine == {r \in doc_chunks : r.doc_id = docRet.doc_id}
        IN /\ {<<r.id, r.position, r.content>> : r \in mine}
                = {<<ChunkId(docRet.doc_id, i - 1), i - 1, docRet.chunks[i]>> : i \in 1..n}
           /\ Cardinality(mine) = n
           /\ \A r \in mine : r.url = docRet.arg
           /\ {s.chunks_count : s \in {x \in doc_sources : x.id = docRet.doc_id}} = {n}

\* a URL indexed before was indexed again and its page had fewer chunks than were stored
C9_Witness ==
    /\ docRet.op = "index_url"
    /\ docRet.ok
    /\ docRet.existing
    /\ docRet.deleted > Len(docRet.chunks)
    /\ Len(docRet.chunks) >= 1

\* C10: remove_documentation, given a source's URL or its 16-character identifier, deletes
\* the source row and its chunk rows (said of the calls whose DELETEs took effect).
C10_RemoveEitherForm ==
    (docRet.op = "remove_documentation" /\ docRet.committed) =>
        \A u \in URLs :
            (docRet.arg = u \/ docRet.arg = DocId(u)) =>
                /\ ~\E s \in doc_sources : s.id = DocId(u)
                /\ ~\E r \in doc_chunks : r.doc_id = DocId(u)

\* ---- Conversation Mirror Sync Utility ----
\* a step that is sync_conversations: the host is as it was and something else is not
SyncStep == cursorKV' = cursorKV /\ workspace' = workspace

\* C14: a sync that follows a sync of the same host rows leaves the message rows and the
\* tool-call rows as they were: none is added, none is duplicated.
C14_ResyncKeepsRows ==
    [][(SyncStep /\ syncs >= 1 /\ ~syncRet'.raised) =>
          /\ external'.messages = external.messages
          /\ external'.tool_calls = external.tool_calls]_vars

\* C15: no bubble makes sync_conversations raise: every bubble row is either counted as a
\* message or as an error, and last_sync is recorded.
C15_BadBubbleNotFatal ==
    [][SyncStep =>
          /\ ~syncRet'.raised
          /\ external'.last_sync
          /\ syncRet'.messages + syncRet'.errors
               = Cardinality({k \in BubbleKeys : Len(k) = 2 /\ cursorKV[k] # NoBubble})]_vars

\* ---- Release Version Sync Automation ----
LastPrinted == IF autoRun.printed = <<>> THEN "" ELSE autoRun.printed[Len(autoRun.printed)]
AllGitSteps == IF autoRun.push THEN <<"status", "add", "commit", "push">>
               ELSE <<"status", "add", "commit">>

\* C16, as amended: a failing commit or push is reported and the run goes on to its
\* completion message; a failing status or stage is reported and ends the run there, with
\* no later git command and no completion message.
C16_CommitPushNotFatal ==
    /\ [](autoRun.pc = "done" /\ autoRun.ran # <<>> =>
            IF autoRun.codes[1] # 0
            THEN autoRun.ran = <<"status">> /\ LastPrinted = "Git status failed"
            ELSE IF autoRun.codes[2] # 0
            THEN autoRun.ran = <<"status", "add">> /\ LastPrinted = "Failed to stage"
            ELSE /\ autoRun.ran = AllGitSteps
                 /\ LastPrinted = "Sync complete!"
                 /\ autoRun.codes[3] # 0 =>
                       \E i \in 1..Len(autoRun.printed) :
                           autoRun.printed[i] = "Commit skipped (no changes or error)"
                 /\ (autoRun.push /\ autoRun.codes[4] # 0) =>
                       \E i \in 1..Len(autoRun.printed) : autoRun.printed[i] = "Push failed")
    /\ (autoRun.pc \in {"commit", "push"}) ~> (autoRun.pc = "done" /\ LastPrinted = "Sync complete!")

\* commit and push both failed and the run printed its completion message
C16_Witness ==
    /\ autoRun.pc = "done"
    /\ autoRun.ran = <<"status", "add", "commit", "push">>
    /\ autoRun.codes = <<0, 0, 1, 128>>
    /\ LastPrinted = "Sync complete!"

\* C16, as claimed: whichever git commands fail, the run goes through all of them and
\* ends with its completion message.
C16_AsClaimed ==
    (autoRun.pc = "done" /\ autoRun.ran # <<>>) =>
        autoRun.ran = AllGitSteps /\ LastPrinted = "Sync complete!"

\* ---- compute_hashes ----
\* the transfers that have been started and have not produced their result
InFlight == {t \in 1..hashing.urls :
               hashing.transfers[t].at \in {"scheduled", "requested", "streaming"}}
\* the batch a URL belongs to
BatchOf(t) == (t - 1) \div hashing.parallel

\* C17: never more than `parallel` transfers are in flight, and a transfer of a later batch
\* has not started while a transfer of an earlier batch has yet to produce its result.
C17_BatchesBoundConcurrency ==
    /\ Cardinality(InFlight) <= hashing.parallel
    /\ \A t, u \in 1..hashing.urls :
          (BatchOf(u) < BatchOf(t) /\ hashing.transfers[t].at # "waiting")
              => hashing.transfers[u].at \in {"ok", "failed"}

\* the second batch is in flight in full, after a first batch in which a transfer failed
C17_Witness ==
    /\ hashing.parallel = 2
    /\ hashing.i = 2
    /\ Cardinality(InFlight) = 2
    /\ hashing.transfers[1].at = "failed"
    /\ hashing.transfers[2].at = "ok"
    /\ hashing.transfers[3].at = "streaming"

\* ---- Legacy Desktop Chat Browser ----
\* what a refresh of the list would show
Listed == {TreeRow(c, gui.selected_ids) :
             c \in get_conversations(conversations, messages, gui.category_var,
                                     gui.favorites_var, None)}

\* C18: after every action of the window that changes the store (conversations, messages,
\* exports), the statistics label shows the store's statistics and the list shows what
\* the store holds under the filters.
C18_MutationsRefresh ==
    [][(gui.open /\ gui'.open /\ <<conversations, messages, exports>>' # <<conversations, messages, exports>>)
          => /\ gui'.stats_label = StatsText(get_stats(conversations', messages'))
             /\ gui'.tree = Listed']_vars

\* ---- Traffic Capture Addon ----
\* C19: a hook called with a non-empty body on a watched host adds exactly one raw file and
\* one metadata record, with the same stem, the record's content_hash_sha256 being the hash
\* of the bytes of that file; a hook called for any other host writes nothing and changes
\* no counter.
C19_OneFileOneRecord ==
    [][capture' # capture =>
         LET flow == capture'.flow
             files == capture'.files \ capture.files
             records == capture'.metadata \ capture.metadata
         IN /\ (is_cursor_domain(flow.host) /\ flow.content # <<>>) =>
                 /\ Cardinality(files) = 1
                 /\ Cardinality(records) = 1
                 /\ \A f \in files, r \in records :
                       /\ f.stem = r.filename
                       /\ f.bytes = flow.content
                       /\ r.content_hash_sha256 = sha256(f.bytes)
            /\ ~is_cursor_domain(flow.host) =>
                 /\ capture'.files = capture.files
                 /\ capture'.metadata = capture.metadata
                 /\ capture'.stats = capture.stats]_vars

\* ---- varint codec ----
\* C20: decoding encode_varint(n) from offset 0 gives n and the length of the encoding as
\* the end offset; the encoding of n < 128 is one byte, and every byte but the last has its
\* continuation bit set.
C20_VarintRoundTrip ==
    /\ varint.pc = "decoded" =>
          /\ varint.decoded[1] = varint.value
          /\ varint.decoded[2] = Len(varint.encoded)
    /\ varint.pc \in {"encoded", "decoded"} =>
          /\ Len(varint.encoded) >= 1
          /\ varint.value < 128 => Len(varint.encoded) = 1
          /\ \A i \in 1..Len(varint.encoded) :
                /\ varint.encoded[i] \in 0..255
                /\ (varint.encoded[i] >= 128) <=> (i < Len(varint.encoded))

\* a three-byte encoding has been decoded
C20_Witness ==
    /\ varint.pc = "decoded"
    /\ varint.value = 16384
    /\ varint.encoded = <<128, 128, 1>>
    /\ varint.decoded = <<16384, 3>>

\* ---- desktop-automation tool dispatcher ----
\* C21: execute_tool never raises; an unknown name gives success false with the error
\* 'Unknown tool: <name>', and a known tool whose parameter lookup or implementation raises
\* gives success false with the exception's message.
C21_ExecuteToolNeverRaises ==
    agent.pc = "executed" =>
        /\ ~agent.result.raised
        /\ agent.name \notin DOMAIN TOOLS =>
              agent.result = ToolResult(FALSE, "Unknown tool: " \o agent.name)
        /\ agent.name \in DOMAIN TOOLS =>
              LET r == CallTool(agent.name, agent.params, agent.outcome)
              IN r.raised => agent.result = ToolResult(FALSE, r.error)

\* windows_search was called without its pattern
C21_Witness ==
    /\ agent.pc = "executed"
    /\ agent.name = "windows_search"
    /\ agent.params = [dict |-> TRUE, keys |-> {}]
    /\ agent.result = ToolResult(FALSE, "'pattern'")

\* where a tag with a blob in braces begins in the text, whatever lies between the braces
Occurrences(text) ==
    {i \in 1..Len(text) :
        /\ text[i] \in DOMAIN OpenTag
        /\ i + 3 <= Len(text)
        /\ text[i + 1] = "{"
        /\ \E j \in (i + 2)..(Len(text) - 1) : text[j] = "}" /\ text[j + 1] = "</tool>"}

\* where the blob of the occurrence at i ends: at the "}" before the nearest "}</tool>"
ShortestEnd(text, i) ==
    CHOOSE j \in (i + 2)..(Len(text) - 1) :
        /\ text[j] = "}" /\ text[j + 1] = "</tool>"
        /\ \A k \in (i + 2)..(j - 1) : ~(text[k] = "}" /\ text[k + 1] = "</tool>")

\* the occurrences the scan takes: those that do not begin inside an earlier one it took
Taken(text) ==
    CHOOSE S \in SUBSET Occurrences(text) :
        \A i \in Occurrences(text) :
            i \in S <=> ~\E h \in S : h < i /\ i <= ShortestEnd(text, h) + 1

\* the k-th of a set of positions, from the left
Kth(S, k) == CHOOSE i \in S : Cardinality({h \in S : h < i}) = k - 1

\* C22 (as amended): parse_and_execute returns one record per occurrence that does not begin
\* inside the blob of an earlier one, in order, each with the result of dispatching that
\* occurrence alone; a blob that is not valid JSON is dispatched with no parameters.
C22_OneRecordPerMatch ==
    agent.pc = "parsed" =>
        LET taken == Taken(agent.text)
        IN /\ Len(agent.results) = Cardinality(taken)
           /\ \A k \in 1..Len(agent.results) :
                 LET i == Kth(taken, k)
                     blob == SubSeq(agent.text, i + 1, ShortestEnd(agent.text, i))
                     alone == parse_and_execute(SubSeq(agent.text, i, ShortestEnd(agent.text, i) + 1),
                                                agent.env)
                 IN /\ agent.results[k].tool = OpenTag[agent.text[i]]
                    /\ blob # <<"{", PatternMember, "}">> => agent.results[k].params.keys = {}
                    /\ alone = <<agent.results[k]>>

\* three occurrences, the second with a blob that is not JSON
C22_Witness ==
    /\ agent.pc = "parsed"
    /\ agent.text = <<"<windows_search>", "{", PatternMember, "}", "</tool>",
                      "<mouse_click>", "{", "{", "}", "}", "</tool>",
                      "<bogus>", "{", "}", "</tool>">>
    /\ Len(agent.results) = 3
    /\ agent.results[2].params.keys = {}
    /\ agent.results[3].result.error = "Unknown tool: bogus"

\* C22 (as claimed): one record per occurrence of <tool name="...">{...}</tool> in the text.
C22_AsClaimed ==
    agent.pc = "parsed" => Len(agent.results) = Cardinality(Occurrences(agent.text))

\* ---- version registry sync ----
\* C23: compare_versions(upstream, local) is the upstream records whose version string is
\* not in the local registry, in upstream order; it is empty when all of them are.
C23_NewVersionsAreTheDifference ==
    registry.command = "compare" =>
        LET github == registry.github
            local == registry.against
            out == registry.compared
            local_versions == {local[i].version : i \in 1..Len(local)}
            kept == {i \in 1..Len(github) : github[i].version \notin local_versions}
        IN /\ Len(out) = Cardinality(kept)
           /\ \A k \in 1..Len(out) :
                 out[k] = github[CHOOSE i \in kept : Cardinality({h \in kept : h < i}) = k - 1]
           /\ (\A i \in 1..Len(github) : github[i].version \in local_versions) => out = <<>>

\* upstream has 2.1 twice around 2.0, and 2.0 is local
C23_Witness ==
    /\ registry.command = "compare"
    /\ registry.github = <<VersionRecord("2.1", {"linux-x64"}), VersionRecord("2.0", {"linux-x64"})>>
    /\ registry.against = <<VersionRecord("2.0", {"linux-x64"})>>
    /\ registry.compared = <<VersionRecord("2.1", {"linux-x64"})>>

C30_BlockHashIsOfItsUrl ==
    \A b \in registry.blocks : b.hash = sha256(b.srcUrl)

\* ---- Traffic Interception Logger Addon ----
\* C24: after any sequence of request callbacks grpc_payloads <= ai_endpoints <=
\* cursor_requests <= requests, and a request to a host outside the watched domains changes
\* only the total request counter.
C24_CountersNested ==
    /\ [](/\ proxy.stats.grpc_payloads <= proxy.stats.ai_endpoints
          /\ proxy.stats.ai_endpoints <= proxy.stats.cursor_requests
          /\ proxy.stats.cursor_requests <= proxy.stats.requests)
    /\ [][(proxy' # proxy /\ ~\E i \in 1..Len(proxy'.flow.host) :
                                  proxy'.flow.host[i] \in WATCHED_DOMAINS)
             => /\ proxy'.stats = [proxy.stats EXCEPT !.requests = @ + 1]
                /\ proxy'.files = proxy.files]_vars

\* four requests: one to another host, one watched, one to an AI endpoint with a JSON body,
\* one with a gRPC body
C24_Witness ==
    /\ proxy.stats.requests = 4
    /\ proxy.stats.cursor_requests = 3
    /\ proxy.stats.ai_endpoints = 2
    /\ proxy.stats.grpc_payloads = 1

\* ---- Memory Payload Deep Decoder ----
RECURSIVE LevelsWithin(_, _)
LevelsWithin(fields, cap) ==
    /\ Len(fields) <= cap
    /\ \A i \in 1..Len(fields) : LevelsWithin(fields[i].children, cap)

\* C26: decode_message returns at most 500 fields for any one message level, for every
\* input byte string.
C26_AtMostFiveHundredFields ==
    decoder.pc = "decoded" => LevelsWithin(decoder.fields, 500)

\* ---- import_from_cursor on a conversation that changed in the host ----
\* a step that is a run of import_from_cursor on a host database that exists
ImportStep ==
    /\ imports' >= 1
    /\ results'.success
    /\ imports' # imports \/ results' # results

AllParse(c) == Len(ParsedMessages(MessagesData(host, c))) = Len(MessagesData(host, c))
OccursIn(errors, e) == Cardinality({i \in 1..Len(errors) : errors[i] = e})

\* the host conversations stored under their id with another content hash, all of whose
\* bubbles parse, and whose new hash is that of no stored and of no other host conversation
ChangedInHost ==
    {c \in HostConvs : /\ IdConflict(conversations, c)
                       /\ AllParse(c)
                       /\ ~HashStored(conversations, c)
                       /\ \A d \in HostConvs \ {c} : HashOf(d) # HashOf(c)}

\* C28, as amended: when import_from_cursor meets a host conversation whose id is stored
\* with another content hash, whose bubbles all parse and whose new hash is that of no
\* stored and of no other host conversation, the stored conversation row and its message rows stay as they are, the one
\* error "Conv <id>" is appended for it, it counts neither as imported nor as skipped, and
\* the other conversations are still imported; alone in the host, it makes the result
\* imported 0, skipped 0 and that single error.
C28_ChangedConversationIsAnError ==
    [][ImportStep =>
        /\ \A c \in ChangedInHost :
              /\ {r \in conversations' : r.id = c} = {r \in conversations : r.id = c}
              /\ {m \in messages' : m.conversation_id = c}
                    = {m \in messages : m.conversation_id = c}
              /\ OccursIn(results'.errors, ConvError(c)) = 1
              /\ HostConvs = {c} =>
                    results' = [NoResults EXCEPT !.errors = <<ConvError(c)>>]
        /\ results'.imported + results'.skipped
              <= Cardinality(HostConvs) - Cardinality(ChangedInHost)
        /\ \A d \in HostConvs :
              (Parseable(d) /\ ~IdTaken(conversations, d)) => HashStored(conversations', d)]_vars

\* c1 was imported and then changed in the host; the next run reports it as the one error
\* and goes on to c2, which it skips
C28_Witness ==
    /\ imports >= 1
    /\ results = [NoResults EXCEPT !.errors = <<ConvError("c1")>>, !.skipped = 1]
    /\ IdConflict(conversations, "c1")
    /\ AllParse("c1")
    /\ "c2" \in HostConvs

\* C28, as claimed: for every host conversation whose id is stored with another content
\* hash the rows stay, one error is appended, and neither counter is incremented.
C28_AsClaimed ==
    [][ImportStep =>
        /\ \A c \in HostConvs :
              IdConflict(conversations, c) =>
                  /\ {r \in conversations' : r.id = c} = {r \in conversations : r.id = c}
                  /\ {m \in messages' : m.conversation_id = c}
                        = {m \in messages : m.conversation_id = c}
                  /\ OccursIn(results'.errors, ConvError(c)) = 1
                  /\ HostConvs = {c} =>
                        results' = [NoResults EXCEPT !.errors = <<ConvError(c)>>]
        /\ results'.imported + results'.skipped
              <= Cardinality(HostConvs)
                   - Cardinality({c \in HostConvs : IdConflict(conversations, c)})]_vars

\* ---- the documentation index ----
\* C25: across index_url, re-index and delete_source, search_docs returns a chunk only if
\* that chunk is currently stored and its current content, title or URL matches the query.
C25_HitsMatchTheQuery ==
    docRet.op = "search_docs" =>
        \A r \in docRet.hits :
            /\ r \in doc_chunks
            /\ docRet.query \in ContentTokens(r.content) \cup Words(r.title) \cup Words(r.url)

\* C27: after any sequence of index_url calls (the fetch succeeding or failing) and
\* delete_source calls, every source row's chunks_count is the number of chunk rows stored
\* with that source's identifier.
C27_ChunksCountIsTheRowCount ==
    \A source \in doc_sources :
        source.chunks_count = Cardinality({r \in doc_chunks : r.doc_id = source.id})

\* ---- chunk_text ----
\* C11: called with chunk_size > 0 and 0 <= overlap < chunk_size, chunk_text returns: every
\* iteration of its loop moves the start offset forward, and every call reaches its return.
C11_ChunkTextTerminates ==
    /\ [][(chunker.pc = "loop" /\ chunker'.pc = "loop") => chunker'.start > chunker.start]_vars
    /\ (chunker.pc = "loop") ~> (chunker.pc = "done")

====
